---- MODULE Spec2Model ----
(***************************************************************************)
(* CryptoPositionPath: the storage layer (data_storage.py), the track      *)
(* builder (track_builder.py), the analytics engine (analytics_engine.py), *)
(* the manual tracks manager (manual_tracks_manager.py) and the data       *)
(* collector (data_collector.py) as state machines.                        *)
(*                                                                         *)
(* Text values the code compares or formats (hex colours, ISO timestamps)  *)
(* are sequences of one-character strings, compared the way SQLite's       *)
(* BINARY collation and Python's str compare them: by character code.      *)
(***************************************************************************)
EXTENDS Integers, Sequences, FiniteSets, TLC

\* ------------------------------------------------------------------------
\* Text
\* ------------------------------------------------------------------------

HexDigits == <<"0", "1", "2", "3", "4", "5", "6", "7", "8", "9", "a", "b", "c", "d", "e", "f">>

DecDigits == <<"0", "1", "2", "3", "4", "5", "6", "7", "8", "9">>

\* The code point of a character of the texts the model compares.
CharCode(c) ==
    CASE c = " " -> 32
      [] c = "#" -> 35
      [] c = "+" -> 43
      [] c = "-" -> 45
      [] c = "." -> 46
      [] c = "0" -> 48
      [] c = "1" -> 49
      [] c = "2" -> 50
      [] c = "3" -> 51
      [] c = "4" -> 52
      [] c = "5" -> 53
      [] c = "6" -> 54
      [] c = "7" -> 55
      [] c = "8" -> 56
      [] c = "9" -> 57
      [] c = ":" -> 58
      [] c = "A" -> 65
      [] c = "B" -> 66
      [] c = "C" -> 67
      [] c = "D" -> 68
      [] c = "E" -> 69
      [] c = "F" -> 70
      [] c = "T" -> 84
      [] c = "a" -> 97
      [] c = "b" -> 98
      [] c = "c" -> 99
      [] c = "d" -> 100
      [] c = "e" -> 101
      [] c = "f" -> 102

\* a < b as texts: the first differing character decides, a proper prefix is less.
StrLess(a, b) ==
    LET differ == {i \in 1..(IF Len(a) < Len(b) THEN Len(a) ELSE Len(b)) : a[i] # b[i]}
        first == CHOOSE i \in differ : \A k \in differ : i <= k
    IN  IF differ = {} THEN Len(a) < Len(b)
        ELSE CharCode(a[first]) < CharCode(b[first])

UpperChar(c) ==
    CASE c = "a" -> "A"
      [] c = "b" -> "B"
      [] c = "c" -> "C"
      [] c = "d" -> "D"
      [] c = "e" -> "E"
      [] c = "f" -> "F"
      [] c = "s" -> "S"
      [] c = "t" -> "T"
      [] c = "u" -> "U"
      [] OTHER -> c

\* str.upper()
Upper(s) == [i \in 1..Len(s) |-> UpperChar(s[i])]

\* f"{n:02x}"
Hex2(n) == <<HexDigits[(n \div 16) + 1], HexDigits[(n % 16) + 1]>>

\* f"{n:02d}"
Dec2(n) == <<DecDigits[((n \div 10) % 10) + 1], DecDigits[(n % 10) + 1]>>

\* f"{n:06d}"
Dec6(n) == Dec2(n \div 10000) \o Dec2((n \div 100) % 100) \o Dec2(n % 100)

\* ------------------------------------------------------------------------
\* Time: an instant is [s |-> whole seconds since 2026-11-01T00:00:00 UTC,
\* us |-> microseconds]. datetime.isoformat() leaves the fraction out when
\* the microsecond is 0.
\* ------------------------------------------------------------------------

Instant(sec, micro) == [s |-> sec, us |-> micro]

\* a is earlier than b (datetime.__lt__)
TimeBefore(a, b) == a.s < b.s \/ (a.s = b.s /\ a.us < b.us)

\* t - timedelta(hours=h)
MinusHours(t, h) == Instant(t.s - h * 3600, t.us)

\* datetime.now(tz=timezone.utc).isoformat(): 2026-11-DDTHH:MM:SS[.ffffff]+00:00
IsoFormat(t) ==
    <<"2", "0", "2", "6", "-", "1", "1", "-">>
        \o Dec2((t.s \div 86400) + 1) \o <<"T">>
        \o Dec2((t.s \div 3600) % 24) \o <<":">>
        \o Dec2((t.s \div 60) % 60) \o <<":">>
        \o Dec2(t.s % 60)
        \o (IF t.us = 0 THEN <<>> ELSE <<".">> \o Dec6(t.us))
        \o <<"+", "0", "0", ":", "0", "0">>

DigitVal(c) == CharCode(c) - 48

Num2(str, i) == DigitVal(str[i]) * 10 + DigitVal(str[i + 1])

\* datetime.fromisoformat(text) of a text IsoFormat wrote
ParseIso(str) ==
    Instant((Num2(str, 9) - 1) * 86400 + Num2(str, 12) * 3600 + Num2(str, 15) * 60 + Num2(str, 18),
            IF str[20] = "."
            THEN Num2(str, 21) * 10000 + Num2(str, 23) * 100 + Num2(str, 25)
            ELSE 0)

\* datetime.now().strftime("%Y%m%d_%H%M%S"): the instant cut to its second
StampOf(t) == t.s

\* A value that may be missing (None, NULL, or the key missing) or given: a number, a
\* text, an instant.
None == [given |-> FALSE, v |-> 0]

NoneText == [given |-> FALSE, v |-> <<>>]

NoneTime == [given |-> FALSE, v |-> [s |-> 0, us |-> 0]]

Some(v) == [given |-> TRUE, v |-> v]

IsDigit(c) == c \in {"0", "1", "2", "3", "4", "5", "6", "7", "8", "9"}


\* datetime.now().isoformat(): the naive local wall time, the host on UTC
IsoFormatNaive(t) == SubSeq(IsoFormat(t), 1, Len(IsoFormat(t)) - 6)

\* b - a, a timedelta: whole seconds (floored) and microseconds in 0..999999
Duration(a, b) ==
    IF b.us - a.us < 0
    THEN [s |-> b.s - a.s - 1, us |-> b.us - a.us + 1000000]
    ELSE [s |-> b.s - a.s, us |-> b.us - a.us]

\* abs(d.total_seconds() - n), for whole n
AbsDiffFrom(d, n) ==
    IF d.s - n >= 0 THEN [s |-> d.s - n, us |-> d.us]
    ELSE IF d.us = 0 THEN [s |-> n - d.s, us |-> 0]
    ELSE [s |-> n - d.s - 1, us |-> 1000000 - d.us]

\* x < y, of two non-negative spans
SpanLess(x, y) == x.s < y.s \/ (x.s = y.s /\ x.us < y.us)

\* x <= n seconds, of a non-negative span
SpanAtMost(x, n) == x.s < n \/ (x.s = n /\ x.us = 0)

\* ------------------------------------------------------------------------
\* State
\* ------------------------------------------------------------------------

VARIABLES
    now,                \* the wall clock: whole seconds since 2026-11-01T00:00:00 UTC
    now_us,             \* the wall clock: the microsecond within the second
    ticks,              \* how many times the clock has advanced
    exchange_feed,      \* what the exchange answers: its tickers and its time
    schema,             \* the base tables that exist in the database file
    pair_colors,        \* rows of pair_colors
    pair_colors_seq,    \* sqlite_sequence of pair_colors (AUTOINCREMENT)
    used_pairs,         \* rows of used_pairs
    snapshots_meta,     \* rows of snapshots_meta
    snapshot_tables,    \* the live snapshot tables: table name -> rows
    user_settings,      \* rows of user_settings: key -> stored text
    tracks,             \* rows of tracks
    tracks_seq,         \* sqlite_sequence of tracks
    pair_color_cache,   \* DataStorage._pair_color_cache with _pair_color_cache_time
    manual_pairs_cache, \* DataStorage._manual_pairs_cache with _manual_pairs_cache_time
    is_running,         \* DataCollector.is_running
    thread,             \* DataCollector.thread: a worker id or NoThread
    workers,            \* the worker threads ever started: id -> position in collection_loop
    coll_config,        \* DataCollector.quote_currency, pair_limit, retention_hours
    last_collection_time, \* DataCollector.last_collection_time
    joining,            \* a caller is inside stop(), waiting in thread.join(timeout=10)
    session_collector,  \* st.session_state.collector: a collector id, or NoCollector
    collectors,         \* the DataCollectors the page created: id -> flag and thread
    fetchers,           \* the AsyncExchangeFetchers created: id -> session, exchange, scope
    last_op             \* the last operation, its arguments and what it returned

clockVars == <<now, now_us, ticks, exchange_feed>>

pageVars == <<session_collector, collectors>>

netVars == <<fetchers>>

dbVars == <<schema, pair_colors, pair_colors_seq, used_pairs, snapshots_meta,
            snapshot_tables, user_settings, tracks, tracks_seq>>

cacheVars == <<pair_color_cache, manual_pairs_cache>>

collVars == <<is_running, thread, workers, coll_config, last_collection_time, joining>>

vars == <<now, now_us, ticks, exchange_feed, schema, pair_colors, pair_colors_seq, used_pairs,
          snapshots_meta, snapshot_tables, user_settings, tracks, tracks_seq,
          pair_color_cache, manual_pairs_cache, is_running, thread, workers,
          coll_config, last_collection_time, joining, session_collector, collectors,
          fetchers, last_op>>

\* ------------------------------------------------------------------------
\* Bounds of the model
\* ------------------------------------------------------------------------

\* The trading pairs (symbols) the exchange reports.
Pairs == {"BTC/USDT", "ETH/USDT", "XRP/USDT"}


\* The second since 2026-11-01T00:00:00 the clock starts at (01:00:00 of the
\* next day, so that a day of retention or lookback stays within the month).
ClockStart == 90000

\* The values random.randint(0, 31), (0, 31) and (0, 7) are sampled at: the
\* corner of the 5-5-3 colour cube that scales to cyan.
RSamples == {0}

GSamples == {31}

BSamples == {7}

\* The value random.randint(0, 0xFFFFFF) of the fallback is sampled at: white.
FallbackSamples == {65535, 16777215}

\* ------------------------------------------------------------------------
\* The database as DataStorage.__init__ leaves a new file
\* ------------------------------------------------------------------------

BaseTables == {"pair_colors", "used_pairs", "snapshots_meta", "user_settings", "tracks"}

ColorBlack == <<"#", "0", "0", "0", "0", "0", "0">>

ColorWhite == <<"#", "F", "F", "F", "F", "F", "F">>

\* INSERT OR IGNORE INTO pair_colors ... ('BLACK', '#000000', 1), ('WHITE', '#FFFFFF', 1)
SystemColors ==
    {[id |-> 1, pair |-> "BLACK", color |-> ColorBlack, is_system |-> 1],
     [id |-> 2, pair |-> "WHITE", color |-> ColorWhite, is_system |-> 1]}

\* What json.dumps(v) writes, and what str(v) writes, kept as the value and how
\* it was written: json.loads reads the first back, and the second only when
\* str(v) happens to be JSON, as it is for an integer.
JsonText(v) == [fmt |-> "json", val |-> v]

StrText(v) == [fmt |-> "str", val |-> v]

\* default_settings; the manual-pair list is kept as the set of its members
DefaultSettings ==
    [k \in {"interval", "manual_pairs"} |->
        IF k = "interval" THEN StrText(60) ELSE JsonText({})]

InitDb ==
    /\ schema = BaseTables
    /\ pair_colors = SystemColors
    /\ pair_colors_seq = 2
    /\ used_pairs = {}
    /\ snapshots_meta = {}
    /\ snapshot_tables = <<>>
    /\ user_settings = DefaultSettings
    /\ tracks = {}
    /\ tracks_seq = 0

\* The exchange answering with no ticker, and not answering fetch_time().
NoFeed == [all_tickers |-> <<>>, exchange_time_ms |-> [given |-> FALSE, v |-> 0]]

InitClock == now = ClockStart /\ now_us = 0 /\ ticks = 0 /\ exchange_feed = NoFeed

\* The instant a datetime.now() of the current step reads.
Now == Instant(now, now_us)

\* _pair_color_cache = {}; _manual_pairs_cache = None, _manual_pairs_cache_time = 0
NoCache == [set |-> FALSE, val |-> {}, time |-> 0]

InitCaches == pair_color_cache = <<>> /\ manual_pairs_cache = NoCache

NoThread == 0

\* last_collection_time = None
NoTime == [set |-> FALSE, at |-> 0]

\* DataCollector.__init__
InitCollector ==
    /\ is_running = FALSE
    /\ thread = NoThread
    /\ workers = <<>>
    /\ coll_config = [quote_currency |-> "None", pair_limit |-> 50, retention_hours |-> 24]
    /\ last_collection_time = NoTime
    /\ joining = FALSE

\* "collector" not in st.session_state
NoCollector == 0

\* A new browser session on the Configuration page.
InitPage == session_collector = NoCollector /\ collectors = <<>>

\* No AsyncExchangeFetcher has been created.
InitNet == fetchers = <<>>

NoOp == [op |-> "none"]

\* The clock advances by d seconds and stands at microsecond us, at most
\* max_ticks times in one behaviour.
Tick(d, us, max_ticks) ==
    /\ ticks < max_ticks
    /\ now' = now + d
    /\ now_us' = us
    /\ ticks' = ticks + 1
    /\ last_op' = [op |-> "tick"]
    /\ UNCHANGED <<exchange_feed, pageVars, netVars, dbVars, cacheVars, collVars>>

\* ------------------------------------------------------------------------
\* Colour assignment (data_storage.py)
\* ------------------------------------------------------------------------

max_attempts == 100

pair_color_cache_ttl == 300

\* int(channel * 255 / max_channel_value)
Scale8(v, maxv) == (v * 255) \div maxv

\* f"#{r_8bit:02x}{g_8bit:02x}{b_8bit:02x}"
ColorHex(r8, g8, b8) == <<"#">> \o Hex2(r8) \o Hex2(g8) \o Hex2(b8)

\* 0.2 < 0.299 * (r/255) + 0.587 * (g/255) + 0.114 * (b/255) < 0.9, times 255000
LuminanceOk(r8, g8, b8) ==
    LET l == 299 * r8 + 587 * g8 + 114 * b8
    IN  51000 < l /\ l < 229500

\* One attempt of the loop on the draw (r, g, b): whether it returns its colour.
AttemptAccepts(used, r, g, b) ==
    LET r8 == Scale8(r, 31)
        g8 == Scale8(g, 31)
        b8 == Scale8(b, 7)
        hex == ColorHex(r8, g8, b8)
    IN  /\ hex \notin used
        /\ hex \notin {ColorBlack, ColorWhite}
        /\ LuminanceOk(r8, g8, b8)

Draws == RSamples \X GSamples \X BSamples

\* f"#{random.randint(0, 0xFFFFFF):06x}"
FallbackColor(n) == <<"#">> \o Hex2(n \div 65536) \o Hex2((n \div 256) % 256) \o Hex2(n % 256)

\* What the loop of `attempts` draws can return: the colour of the first draw it
\* accepts, or, when it rejects every one of its draws (there is a draw it
\* rejects, or it has no attempt at all), the fallback.
AttemptLoop(used, attempts) ==
    (IF attempts > 0
     THEN {ColorHex(Scale8(d[1], 31), Scale8(d[2], 31), Scale8(d[3], 7)) :
              d \in {x \in Draws : AttemptAccepts(used, x[1], x[2], x[3])}}
     ELSE {})
    \cup (IF attempts = 0 \/ \E x \in Draws : ~AttemptAccepts(used, x[1], x[2], x[3])
          THEN {FallbackColor(n) : n \in FallbackSamples}
          ELSE {})

\* _generate_unique_color(): the colours it can return, on the pair_colors
\* rows `rows` (has_table: the table exists)
GenerateUniqueColor(has_table, rows) ==
    IF ~has_table
    THEN {FallbackColor(n) : n \in FallbackSamples}
    ELSE AttemptLoop({r.color : r \in {x \in rows : x.is_system = 0}}, max_attempts)

\* (None, None)
NoColor == [id |-> 0, color |-> <<>>]

\* The colour store an operation works on: the rows and the sequence of
\* pair_colors and the colour cache of the DataStorage.
ColorStore == [rows |-> pair_colors, seq |-> pair_colors_seq, cache |-> pair_color_cache]

CacheHit(cs, pair) ==
    /\ pair \in DOMAIN cs.cache
    /\ now - cs.cache[pair].time < pair_color_cache_ttl

CachePut(cs, pair, id, color) ==
    [p \in DOMAIN cs.cache \cup {pair} |->
        IF p = pair THEN [id |-> id, color |-> color, time |-> now]
        ELSE cs.cache[p]]

\* INSERT INTO pair_colors (pair, color): pair UNIQUE, color UNIQUE (BINARY collation)
PairColorInsertOk(rows, pair, color) ==
    /\ \A r \in rows : r.pair # pair
    /\ \A r \in rows : r.color # color

\* get_or_create_pair_color(pair) on the colour store cs: the stores it can
\* leave, each with the value returned (ret) and where it came from.
PairColorOutcomes(cs, has_table, pair) ==
    IF CacheHit(cs, pair)
    THEN {[store |-> cs, from |-> "cache",
           ret |-> [id |-> cs.cache[pair].id, color |-> cs.cache[pair].color]]}
    ELSE IF ~has_table
    THEN {[store |-> cs, from |-> "error", ret |-> NoColor]}
    ELSE IF \E r \in cs.rows : r.pair = pair /\ r.is_system = 0
    THEN LET row == CHOOSE r \in cs.rows : r.pair = pair /\ r.is_system = 0
         IN  {[store |-> [cs EXCEPT !.cache = CachePut(cs, pair, row.id, row.color)],
               from |-> "db", ret |-> [id |-> row.id, color |-> row.color]]}
    ELSE {IF PairColorInsertOk(cs.rows, pair, new_color)
          THEN [store |-> [rows |-> cs.rows \cup {[id |-> cs.seq + 1, pair |-> pair,
                                                   color |-> new_color, is_system |-> 0]},
                           seq |-> cs.seq + 1,
                           cache |-> CachePut(cs, pair, cs.seq + 1, new_color)],
                from |-> "new", ret |-> [id |-> cs.seq + 1, color |-> new_color]]
          ELSE [store |-> cs, from |-> "error", ret |-> NoColor] :
          new_color \in GenerateUniqueColor(has_table, cs.rows)}

\* The call before this one was get_or_create_pair_color of the same pair.
SamePairCalledLast(pair) ==
    last_op.op = "get_or_create_pair_color" /\ last_op.pair = pair

\* get_or_create_pair_color(pair), the value returned kept in last_op, with
\* whether it repeats the call before it and what that call returned
GetOrCreatePairColor(pair) ==
    /\ \E o \in PairColorOutcomes(ColorStore, "pair_colors" \in schema, pair) :
          /\ pair_colors' = o.store.rows
          /\ pair_colors_seq' = o.store.seq
          /\ pair_color_cache' = o.store.cache
          /\ last_op' = [op |-> "get_or_create_pair_color", pair |-> pair,
                         from |-> o.from, ret |-> o.ret,
                         again |-> SamePairCalledLast(pair),
                         first_ret |-> IF SamePairCalledLast(pair)
                                       THEN last_op.ret ELSE NoColor]
    /\ UNCHANGED <<clockVars, pageVars, netVars, schema, used_pairs, snapshots_meta, snapshot_tables,
                   user_settings, tracks, tracks_seq, manual_pairs_cache, collVars>>

\* ------------------------------------------------------------------------
\* Specification: colour assignment on one DataStorage
\* ------------------------------------------------------------------------

\* The clock step of the colour specification: one step stays within the cache
\* TTL, two steps pass it.
ColorClockSteps == {200}

\* How often the clock advances in one behaviour of the colour specification.
MaxColorTicks == 2

InitColor ==
    /\ InitClock
    /\ InitDb
    /\ InitCaches
    /\ InitCollector
    /\ InitPage
    /\ InitNet
    /\ last_op = NoOp

\* time.time() advances between two calls; no operation is called.
ColorTick(d) ==
    /\ ticks < MaxColorTicks
    /\ now' = now + d
    /\ ticks' = ticks + 1
    /\ UNCHANGED <<now_us, exchange_feed, pageVars, netVars, dbVars, cacheVars, collVars,
                   last_op>>

NextColor ==
    \/ \E pair \in Pairs : GetOrCreatePairColor(pair)
    \/ \E d \in ColorClockSteps : ColorTick(d)

SpecColor == InitColor /\ [][NextColor]_vars

NonSystemColors == {r \in pair_colors : r.is_system = 0}

\* C1: no two non-system pairs are ever assigned the same hex colour, and no
\* pair is ever assigned #000000 or #FFFFFF, in any letter case.
ColorsUniqueAndNeverReserved ==
    /\ \A a \in NonSystemColors : \A b \in NonSystemColors :
           a.pair # b.pair => a.color # b.color
    /\ \A a \in NonSystemColors : Upper(a.color) \notin {ColorBlack, ColorWhite}


PairRows(pair) == {r \in pair_colors : r.pair = pair /\ r.is_system = 0}

\* C11: get_or_create_pair_color called twice in a row for the same pair, with
\* no cache invalidation in between, returns the identical (id, hex) both times
\* and leaves exactly one pair_colors row for that pair, whether the second
\* call is served from the cache or, after the TTL, from the database.
SecondCallReturnsSameColor ==
    (last_op.op = "get_or_create_pair_color" /\ last_op.again) =>
        /\ last_op.ret = last_op.first_ret
        /\ Cardinality(PairRows(last_op.pair)) = 1
\* ------------------------------------------------------------------------
\* Data collector (data_collector.py)
\* ------------------------------------------------------------------------

\* The worker threads one behaviour may start.
MaxWorkers == 2

min_interval_seconds == 30

\* The arguments start() is called with: quote currency, pair limit (one above
\* the cap of 5000), retention hours and the polling interval in seconds.
StartArgs ==
    {[quote_currency |-> "USDT", pair_limit |-> 6000, retention_hours |-> 1, interval_seconds |-> 1],
     [quote_currency |-> "None", pair_limit |-> 50, retention_hours |-> 24, interval_seconds |-> 1]}

Min(a, b) == IF a < b THEN a ELSE b

WorkerIds == DOMAIN workers

\* The workers that have not left collection_loop.
LiveWorkers == {w \in WorkerIds : workers[w].pc # "done"}

SetWorker(w, rec) == [workers EXCEPT ![w] = rec]

\* start() without its is_running guard: every call starts a thread.
StartUnguarded(args) ==
    /\ ~joining
    /\ Len(workers) < MaxWorkers
    /\ is_running' = TRUE
    /\ coll_config' = [quote_currency |-> args.quote_currency,
                       pair_limit |-> Min(args.pair_limit, 5000),
                       retention_hours |-> args.retention_hours]
    /\ workers' = Append(workers, [pc |-> "loop", interval |-> args.interval_seconds,
                                   left |-> 0, current_time |-> 0])
    /\ thread' = Len(workers) + 1
    /\ last_op' = [op |-> "start", noop |-> FALSE, args |-> args]
    /\ UNCHANGED <<clockVars, pageVars, netVars, dbVars, cacheVars, last_collection_time, joining>>

\* start(exchange, market_type, quote_currency, interval_seconds, pair_limit, retention_hours)
Start(args) ==
    /\ ~joining
    /\ IF is_running
       THEN /\ last_op' = [op |-> "start", noop |-> TRUE, args |-> args]
            /\ UNCHANGED <<clockVars, pageVars, netVars, dbVars, cacheVars, collVars>>
       ELSE /\ Len(workers) < MaxWorkers
            /\ is_running' = TRUE
            /\ coll_config' = [quote_currency |-> args.quote_currency,
                               pair_limit |-> Min(args.pair_limit, 5000),
                               retention_hours |-> args.retention_hours]
            /\ workers' = Append(workers, [pc |-> "loop", interval |-> args.interval_seconds,
                                           left |-> 0, current_time |-> 0])
            /\ thread' = Len(workers) + 1
            /\ last_op' = [op |-> "start", noop |-> FALSE, args |-> args]
            /\ UNCHANGED <<clockVars, pageVars, netVars, dbVars, cacheVars, last_collection_time, joining>>

\* stop(), up to its thread.join(timeout=10): the flag is cleared
StopBegin ==
    /\ ~joining
    /\ is_running' = FALSE
    /\ IF thread # NoThread
       THEN joining' = TRUE /\ thread' = thread
       ELSE joining' = FALSE /\ thread' = thread
    /\ last_op' = [op |-> "stop", returned |-> thread = NoThread, timed_out |-> FALSE]
    /\ UNCHANGED <<clockVars, pageVars, netVars, dbVars, cacheVars, workers, coll_config, last_collection_time>>

\* stop(), from the return of thread.join(timeout=10): the worker has finished,
\* or the 10 seconds have passed with the worker inside a collection cycle
\* (network timeouts of 30 s) or inside the 30-second back-off; the handle is
\* dropped either way.
StopReturn ==
    /\ joining
    /\ workers[thread].pc \in {"done", "collecting", "backoff"}
    /\ joining' = FALSE
    /\ thread' = NoThread
    /\ last_op' = [op |-> "stop", returned |-> TRUE, timed_out |-> workers[thread].pc # "done"]
    /\ UNCHANGED <<clockVars, pageVars, netVars, dbVars, cacheVars, is_running, workers, coll_config,
                   last_collection_time>>

\* collection_loop: `while self.is_running:` and the throttle check of the tick
WorkerLoopTop(w) ==
    /\ workers[w].pc = "loop"
    /\ IF ~is_running
       THEN workers' = SetWorker(w, [workers[w] EXCEPT !.pc = "done"])
       ELSE IF last_collection_time.set /\ now - last_collection_time.at < min_interval_seconds
       THEN workers' = SetWorker(w, [workers[w] EXCEPT !.pc = "sleeping",
                                                        !.left = workers[w].interval])
       ELSE workers' = SetWorker(w, [workers[w] EXCEPT !.pc = "collecting",
                                                        !.current_time = now])
    /\ last_op' = [op |-> "worker", step |-> "loop", w |-> w]
    /\ UNCHANGED <<clockVars, pageVars, netVars, dbVars, cacheVars, is_running, thread, coll_config,
                   last_collection_time, joining>>

\* loop.run_until_complete(self._collect_data(...)) returns, the cycle having
\* succeeded or _collect_data having caught and logged its error;
\* self.last_collection_time = current_time
WorkerTickReturns(w) ==
    /\ workers[w].pc = "collecting"
    /\ last_collection_time' = [set |-> TRUE, at |-> workers[w].current_time]
    /\ workers' = SetWorker(w, [workers[w] EXCEPT !.pc = "sleeping",
                                                   !.left = workers[w].interval,
                                                   !.current_time = 0])
    /\ \E succeeded \in BOOLEAN :
          last_op' = [op |-> "worker", step |-> "tick_returns", w |-> w,
                      succeeded |-> succeeded]
    /\ UNCHANGED <<clockVars, pageVars, netVars, dbVars, cacheVars, is_running, thread, coll_config, joining>>

\* an exception escapes the tick: `except Exception`, then time.sleep(30)
WorkerTickRaises(w) ==
    /\ workers[w].pc = "collecting"
    /\ workers' = SetWorker(w, [workers[w] EXCEPT !.pc = "backoff", !.current_time = 0])
    /\ last_op' = [op |-> "worker", step |-> "tick_raises", w |-> w]
    /\ UNCHANGED <<clockVars, pageVars, netVars, dbVars, cacheVars, is_running, thread, coll_config,
                   last_collection_time, joining>>

\* one round of `for _ in range(interval_seconds): if not self.is_running: break; time.sleep(1)`
WorkerSleepStep(w) ==
    /\ workers[w].pc = "sleeping"
    /\ IF workers[w].left = 0 \/ ~is_running
       THEN workers' = SetWorker(w, [workers[w] EXCEPT !.pc = "loop", !.left = 0])
       ELSE workers' = SetWorker(w, [workers[w] EXCEPT !.left = workers[w].left - 1])
    /\ last_op' = [op |-> "worker", step |-> "sleep", w |-> w]
    /\ UNCHANGED <<clockVars, pageVars, netVars, dbVars, cacheVars, is_running, thread, coll_config,
                   last_collection_time, joining>>

\* time.sleep(30) of the error handler returns
WorkerBackoffDone(w) ==
    /\ workers[w].pc = "backoff"
    /\ workers' = SetWorker(w, [workers[w] EXCEPT !.pc = "loop"])
    /\ last_op' = [op |-> "worker", step |-> "backoff_done", w |-> w]
    /\ UNCHANGED <<clockVars, pageVars, netVars, dbVars, cacheVars, is_running, thread, coll_config,
                   last_collection_time, joining>>

\* The clock step of the collector specification: half the throttle interval.
CollectorClockSteps == {15}

\* How often the clock advances in one behaviour of the collector specification.
MaxCollectorTicks == 2

InitCollectorSpec ==
    /\ InitClock
    /\ InitDb
    /\ InitCaches
    /\ InitCollector
    /\ InitPage
    /\ InitNet
    /\ last_op = NoOp

NextCollector ==
    \/ \E args \in StartArgs : Start(args)
    \/ StopBegin
    \/ StopReturn
    \/ \E w \in WorkerIds : WorkerLoopTop(w)
    \/ \E w \in WorkerIds : WorkerTickReturns(w)
    \/ \E w \in WorkerIds : WorkerTickRaises(w)
    \/ \E w \in WorkerIds : WorkerSleepStep(w)
    \/ \E w \in WorkerIds : WorkerBackoffDone(w)
    \/ \E d \in CollectorClockSteps : Tick(d, 0, MaxCollectorTicks)

SpecCollector == InitCollectorSpec /\ [][NextCollector]_vars

\* C2: no two collection ticks of one collector run concurrently, and at most
\* one worker thread of it is executing the polling loop.
OneWorkerAtATime ==
    /\ Cardinality({w \in WorkerIds : workers[w].pc = "collecting"}) <= 1
    /\ Cardinality(LiveWorkers) <= 1

\* C3: a start() on a running collector creates no thread and leaves the flag,
\* the thread handle and quote_currency, pair_limit and retention_hours as they
\* were; a start() on a stopped collector starts exactly one thread.
SecondStartIsNoOp ==
    [][last_op'.op = "start" =>
          IF is_running
          THEN UNCHANGED <<is_running, thread, workers, coll_config>>
          ELSE /\ Len(workers') = Len(workers) + 1
               /\ Cardinality({w \in DOMAIN workers' : workers'[w].pc # "done"})
                      = Cardinality(LiveWorkers) + 1]_vars

\* C3 witness: start() has just returned early on a collector whose one worker
\* is polling, called with arguments other than those in force.
SecondStartReached ==
    /\ last_op.op = "start"
    /\ last_op.noop
    /\ Cardinality(LiveWorkers) = 1
    /\ last_op.args.quote_currency # coll_config.quote_currency
    /\ last_op.args.retention_hours # coll_config.retention_hours
    /\ \E w \in LiveWorkers : workers[w].pc = "collecting"

\* C15: once stop() has cleared the running flag a worker starts no new
\* collection cycle and leaves its loop after the cycle in flight and at most
\* one one-second sleep step: from the top of the loop it exits, from the sleep
\* loop it breaks to the top of the loop, and it is never inside the 30-second
\* sleep of the error back-off while the flag is cleared.
StoppedWorkerExitsWithinOneSleepStep ==
    [][/\ ~is_running' => \A w \in DOMAIN workers' : workers'[w].pc # "backoff"
       /\ (~is_running /\ last_op'.op = "worker") =>
             /\ workers'[last_op'.w].pc # "collecting"
             /\ workers[last_op'.w].pc = "loop" => workers'[last_op'.w].pc = "done"
             /\ workers[last_op'.w].pc = "sleeping" => workers'[last_op'.w].pc = "loop"]_vars

\* C20: the self-throttle is measured from the completion of the previous
\* successful cycle: the time recorded when a cycle returns is the time of its
\* completion, it is recorded only for a cycle that succeeded, and a tick that
\* begins fewer than min_interval_seconds after the recorded time starts no
\* collection.
ThrottleMeasuredFromCompletion ==
    [][last_op'.op = "worker" =>
          /\ (last_op'.step = "tick_returns" /\ last_op'.succeeded) =>
                 last_collection_time' = [set |-> TRUE, at |-> now']
          /\ (last_op'.step = "tick_returns" /\ ~last_op'.succeeded) =>
                 last_collection_time' = last_collection_time
          /\ last_op'.step # "tick_returns" => last_collection_time' = last_collection_time
          /\ (/\ last_op'.step = "loop"
              /\ last_collection_time.set
              /\ now - last_collection_time.at < min_interval_seconds) =>
                 workers'[last_op'.w].pc # "collecting"]_vars
\* ------------------------------------------------------------------------
\* The Start and Stop buttons of the Configuration page (config_page.py)
\* ------------------------------------------------------------------------

\* The collectors one session may create.
MaxCollectors == 3

\* The collectors whose thread has not left collection_loop.
LiveCollectors == {c \in DOMAIN collectors : collectors[c].pc # "done"}

\* Start pressed: collector = DataCollector(self.storage); collector.start(...)
\* (is_running is False on the new object, so a thread is started);
\* st.session_state.collector = collector. A collector already in the session
\* state is replaced there and stays as it is.
PressStart ==
    /\ Len(collectors) < MaxCollectors
    /\ collectors' = Append(collectors, [is_running |-> TRUE, pc |-> "polling"])
    /\ session_collector' = Len(collectors) + 1
    /\ last_op' = [op |-> "press_start", collector |-> Len(collectors) + 1]
    /\ UNCHANGED <<clockVars, netVars, dbVars, cacheVars, collVars>>

\* stop() of one collector: the flag is cleared and the thread joined for 10
\* seconds. A thread between two cycles sees the flag within a second and
\* ends; a thread inside a cycle ends if the cycle does in time; a thread in
\* the 30-second back-off outlives the join.
StopOutcomes(c) ==
    CASE c.pc = "collecting" -> {[is_running |-> FALSE, pc |-> "done"],
                                 [is_running |-> FALSE, pc |-> "collecting"]}
      [] c.pc = "backoff" -> {[is_running |-> FALSE, pc |-> "backoff"]}
      [] OTHER -> {[is_running |-> FALSE, pc |-> "done"]}

\* Stop pressed: if "collector" in st.session_state, its stop() and del
\* st.session_state.collector
PressStop ==
    /\ IF session_collector # NoCollector
       THEN \E stopped \in StopOutcomes(collectors[session_collector]) :
               /\ collectors' = [collectors EXCEPT ![session_collector] = stopped]
               /\ session_collector' = NoCollector
               /\ last_op' = [op |-> "press_stop", collector |-> session_collector]
       ELSE /\ last_op' = [op |-> "press_stop", collector |-> NoCollector]
            /\ UNCHANGED pageVars
    /\ UNCHANGED <<clockVars, netVars, dbVars, cacheVars, collVars>>

\* collection_loop of collector c: `while self.is_running:` then a cycle
CollectorBeginsCycle(c) ==
    /\ collectors[c].pc = "polling"
    /\ IF collectors[c].is_running
       THEN collectors' = [collectors EXCEPT ![c].pc = "collecting"]
       ELSE collectors' = [collectors EXCEPT ![c].pc = "done"]
    /\ last_op' = [op |-> "collector", c |-> c, step |-> "loop"]
    /\ UNCHANGED <<clockVars, netVars, dbVars, cacheVars, collVars, session_collector>>

\* collection_loop of collector c: the cycle returns (the sleep follows), or
\* raises (time.sleep(30) follows)
CollectorEndsCycle(c) ==
    /\ collectors[c].pc = "collecting"
    /\ \E raised \in BOOLEAN :
          /\ collectors' = [collectors EXCEPT ![c].pc = IF raised THEN "backoff"
                                                       ELSE "polling"]
          /\ last_op' = [op |-> "collector", c |-> c, step |-> "cycle", raised |-> raised]
    /\ UNCHANGED <<clockVars, netVars, dbVars, cacheVars, collVars, session_collector>>

\* collection_loop of collector c: time.sleep(30) returns
CollectorBackoffDone(c) ==
    /\ collectors[c].pc = "backoff"
    /\ collectors' = [collectors EXCEPT ![c].pc = "polling"]
    /\ last_op' = [op |-> "collector", c |-> c, step |-> "backoff"]
    /\ UNCHANGED <<clockVars, netVars, dbVars, cacheVars, collVars, session_collector>>

NextPage ==
    \/ PressStart
    \/ PressStop
    \/ \E c \in DOMAIN collectors : CollectorBeginsCycle(c)
    \/ \E c \in DOMAIN collectors : CollectorEndsCycle(c)
    \/ \E c \in DOMAIN collectors : CollectorBackoffDone(c)

InitPageSpec ==
    /\ InitClock
    /\ InitDb
    /\ InitCaches
    /\ InitCollector
    /\ InitPage
    /\ InitNet
    /\ last_op = NoOp

SpecPage == InitPageSpec /\ [][NextPage]_vars

\* C24: for any sequence of Start and Stop presses within one session at most
\* one collector started from the session is polling at any time, and after a
\* Stop press no collector thread started from the session is still running.
SessionRunsAtMostOneCollector ==
    /\ Cardinality({c \in LiveCollectors : collectors[c].is_running}) <= 1
    /\ last_op.op = "press_stop" => LiveCollectors = {}

\* ------------------------------------------------------------------------
\* Snapshots, settings and retention (data_storage.py)
\* ------------------------------------------------------------------------

\* The snapshot tables one behaviour may hold at a time.
MaxSnapshots == 2

\* The exchange and market type a snapshot or a track belongs to.
Venues ==
    {[exchange |-> "binance", market_type |-> "spot"],
     [exchange |-> "binance", market_type |-> "futures"]}

\* The rankings fetch_ranked_pairs returns, best change_24h first; the empty
\* one is the empty table of a fetch that found nothing.
Rankings ==
    {<<"BTC/USDT", "ETH/USDT", "XRP/USDT">>,
     <<"XRP/USDT", "ETH/USDT", "BTC/USDT">>,
     <<"ETH/USDT", "BTC/USDT">>,
     <<>>}

Range(f) == {f[i] : i \in DOMAIN f}

\* The last price of a pair, in cents.
PriceOf(pair) ==
    CASE pair = "BTC/USDT" -> 6500000
      [] pair = "ETH/USDT" -> 320000
      [] OTHER -> 55

\* The table fetch_ranked_pairs builds of a ranking: rank = 1..n in the order of
\* change_24h, with the colour columns save_snapshot adds (None). The columns
\* timestamp and system_timestamp are left out of the rows: every ticker of one
\* fetch carries the exchange time the snapshot is saved with.
DfOf(ranking) ==
    [p \in Range(ranking) |->
        LET i == CHOOSE k \in DOMAIN ranking : ranking[k] = p
        IN  [rank |-> i, price |-> PriceOf(p) + i, change_24h |-> 50 - 20 * i,
             volume_24h |-> 1000 * i + 7, colour |-> NoneText, manual_colour |-> NoneText]]

\* f"snapshot_{exchange}_{market_type}_{created_at_timestamp}"
TableName(venue, stamp) ==
    [exchange |-> venue.exchange, market_type |-> venue.market_type, stamp |-> stamp]

\* table_name = ""
NoTable == [exchange |-> "", market_type |-> "", stamp |-> 0]

PutTable(tables, name, df) ==
    [t \in DOMAIN tables \cup {name} |-> IF t = name THEN df ELSE tables[t]]

DropTables(tables, names) == [t \in DOMAIN tables \ names |-> tables[t]]

\* INSERT OR REPLACE INTO used_pairs (pair, exchange, market_type, first_seen,
\* last_seen), for every pair of the table: the row of a known pair is replaced,
\* its first_seen kept; quote_currency is left NULL.
UsedPairsUpsert(rows, venue, pairs, seen) ==
    {u \in rows : u.pair \notin pairs}
        \cup {[pair |-> p, exchange |-> venue.exchange, market_type |-> venue.market_type,
               quote_currency |-> "NULL",
               first_seen |-> IF \E u \in rows : u.pair = p
                              THEN (CHOOSE u \in rows : u.pair = p).first_seen
                              ELSE seen,
               last_seen |-> seen] : p \in pairs}

\* get_used_pairs(exchange, market_type, quote_currency): the pairs of the
\* used_pairs rows of the exchange and market type, and, when a quote currency
\* other than "All pairs" is given, of that quote currency or of none ("None":
\* no quote currency given)
GetUsedPairs(rows, venue, quote_currency) ==
    {u.pair : u \in {x \in rows :
                        /\ x.exchange = venue.exchange
                        /\ x.market_type = venue.market_type
                        /\ quote_currency \notin {"None", "All pairs"}
                               => x.quote_currency \in {quote_currency, "NULL"}}}

\* save_snapshot(exchange, market_type, df), df the table of a ranking whose
\* tickers are `lag` seconds old: df.to_sql(if_exists='replace')
\* writes and commits the table on its own; the snapshots_meta row and the
\* used_pairs rows are one transaction after it, which the except branch leaves
\* uncommitted when either statement raises (a table_name already in
\* snapshots_meta, a missing table).
SaveSnapshot(venue, ranking, lag) ==
    LET df == DfOf(ranking)
        table_name == TableName(venue, StampOf(Now))
        snapshot_exchange_time == IsoFormat(Instant(now - lag, now_us))
        meta_ok == /\ "snapshots_meta" \in schema
                   /\ \A m \in snapshots_meta : m.table_name # table_name
        used_ok == "used_pairs" \in schema
    IN  /\ \/ table_name \in DOMAIN snapshot_tables
           \/ Cardinality(DOMAIN snapshot_tables) < MaxSnapshots
        /\ IF DOMAIN df = {}
           THEN /\ last_op' = [op |-> "save_snapshot", venue |-> venue, ret |-> NoTable]
                /\ UNCHANGED <<snapshot_tables, snapshots_meta, used_pairs>>
           ELSE /\ snapshot_tables' = PutTable(snapshot_tables, table_name, df)
                /\ IF meta_ok /\ used_ok
                   THEN /\ snapshots_meta' = snapshots_meta \cup
                               {[table_name |-> table_name, exchange |-> venue.exchange,
                                 market_type |-> venue.market_type,
                                 exchange_timestamp |-> snapshot_exchange_time,
                                 created_at |-> IsoFormat(Now),
                                 row_count |-> Cardinality(DOMAIN df)]}
                        /\ used_pairs' = UsedPairsUpsert(used_pairs, venue, DOMAIN df,
                                                         IsoFormatNaive(Now))
                        /\ last_op' = [op |-> "save_snapshot", venue |-> venue,
                                       ret |-> table_name]
                   ELSE /\ last_op' = [op |-> "save_snapshot", venue |-> venue,
                                       ret |-> NoTable]
                        /\ UNCHANGED <<snapshots_meta, used_pairs>>
        /\ UNCHANGED <<clockVars, pageVars, netVars, schema, pair_colors, pair_colors_seq, user_settings,
                       tracks, tracks_seq, cacheVars, collVars>>

\* The comparison with the boundary let in: created_at <= ?
CreatedAtOrBefore(created_at, cutoff_time) ==
    StrLess(created_at, cutoff_time) \/ created_at = cutoff_time

\* WHERE created_at < ?, of two texts
CreatedBefore(created_at, cutoff_time) == StrLess(created_at, cutoff_time)

\* cleanup_old_data(retention_hours, cleanup_colors): one transaction, rolled
\* back as a whole when a statement raises (a missing table).
CleanupOldData(retention_hours, cleanup_colors) ==
    LET cutoff_time == IsoFormat(MinusHours(Now, retention_hours))
        old_tracks == {r \in tracks : CreatedBefore(r.created_at, cutoff_time)}
        old_meta == {m \in snapshots_meta : CreatedBefore(m.created_at, cutoff_time)}
        old_tables == {m.table_name : m \in old_meta}
        kept_used == {u \in used_pairs : ~CreatedBefore(u.last_seen, cutoff_time)}
        ok == /\ {"tracks", "snapshots_meta"} \subseteq schema
              /\ cleanup_colors => {"used_pairs", "pair_colors"} \subseteq schema
    IN  /\ IF ok
           THEN /\ tracks' = tracks \ old_tracks
                /\ snapshot_tables' = DropTables(snapshot_tables, old_tables)
                /\ snapshots_meta' = snapshots_meta \ old_meta
                /\ IF cleanup_colors
                   THEN /\ used_pairs' = kept_used
                        /\ pair_colors' = {c \in pair_colors :
                                              \/ c.is_system # 0
                                              \/ \E u \in kept_used : u.pair = c.pair}
                   ELSE UNCHANGED <<used_pairs, pair_colors>>
                /\ last_op' = [op |-> "cleanup_old_data", ok |-> TRUE,
                               cutoff |-> cutoff_time, at |-> Now,
                               retention_hours |-> retention_hours,
                               tracks_deleted |-> Cardinality(old_tracks),
                               old_tables |-> old_tables]
           ELSE /\ UNCHANGED <<tracks, snapshot_tables, snapshots_meta, used_pairs,
                               pair_colors>>
                /\ last_op' = [op |-> "cleanup_old_data", ok |-> FALSE,
                               cutoff |-> cutoff_time, at |-> Now,
                               retention_hours |-> retention_hours,
                               tracks_deleted |-> 0, old_tables |-> {}]
        /\ UNCHANGED <<clockVars, pageVars, netVars, schema, pair_colors_seq, user_settings, tracks_seq,
                       cacheVars, collVars>>

\* clear_all_data(keep_colors, keep_settings): every table but the kept ones is
\* dropped, the snapshot tables among them; snapshots_meta alone is created again.
ClearAllData(keep_colors, keep_settings) ==
    LET tables_to_keep == (IF keep_colors THEN {"pair_colors", "used_pairs"} ELSE {})
                              \cup (IF keep_settings THEN {"user_settings"} ELSE {})
        tables_to_delete == schema \ tables_to_keep
    IN  /\ schema' = (schema \cap tables_to_keep)
                        \cup (IF "snapshots_meta" \in tables_to_delete
                              THEN {"snapshots_meta"} ELSE {})
        /\ snapshot_tables' = <<>>
        /\ snapshots_meta' = {}
        /\ tracks' = {}
        /\ tracks_seq' = 0
        /\ IF "pair_colors" \in tables_to_delete
           THEN pair_colors' = {} /\ pair_colors_seq' = 0
           ELSE UNCHANGED <<pair_colors, pair_colors_seq>>
        /\ IF "used_pairs" \in tables_to_delete
           THEN used_pairs' = {}
           ELSE UNCHANGED used_pairs
        /\ IF "user_settings" \in tables_to_delete
           THEN user_settings' = <<>>
           ELSE UNCHANGED user_settings
        /\ last_op' = [op |-> "clear_all_data", keep_colors |-> keep_colors,
                       keep_settings |-> keep_settings]
        /\ UNCHANGED <<clockVars, pageVars, netVars, cacheVars, collVars>>

\* value.isdigit(): a non-empty text of digits (it does not start with '#')
IsDigitText(text) == text # <<>> /\ \A i \in DOMAIN text : IsDigit(text[i])

RECURSIVE IntOfText(_)
\* int(value), of a text of digits
IntOfText(text) ==
    IF text = <<>> THEN 0
    ELSE IntOfText(SubSeq(text, 1, Len(text) - 1)) * 10 + DigitVal(text[Len(text)])

\* str(color_id), as the TEXT column keeps a number written to it
RECURSIVE TextOfInt(_)
TextOfInt(n) ==
    IF n < 10 THEN <<DecDigits[n + 1]>>
    ELSE TextOfInt(n \div 10) \o <<DecDigits[(n % 10) + 1]>>

\* update_snapshot_color(table_name, pair, color_id): UPDATE table SET colour =
\* color_id WHERE pair = pair; a missing table is an error that is logged.
UpdateSnapshotColor(table_name, pair, color_id) ==
    /\ IF table_name \in DOMAIN snapshot_tables
       THEN snapshot_tables' =
               [snapshot_tables EXCEPT ![table_name] =
                   [p \in DOMAIN @ |-> IF p = pair
                                       THEN [@[p] EXCEPT !.colour = Some(TextOfInt(color_id))]
                                       ELSE @[p]]]
       ELSE UNCHANGED snapshot_tables
    /\ last_op' = [op |-> "update_snapshot_color", table_name |-> table_name,
                   pair |-> pair, color_id |-> color_id]
    /\ UNCHANGED <<clockVars, pageVars, netVars, schema, pair_colors, pair_colors_seq, used_pairs,
                   snapshots_meta, user_settings, tracks, tracks_seq, cacheVars, collVars>>

\* _fix_color_value(cursor, table_name, column, value): the value the rows
\* holding `value` hold afterwards: the hex colour of the pair_colors row whose
\* id the value is, when it is a number and there is such a row
FixColorValue(value) ==
    IF value.given /\ IsDigitText(value.v)
          /\ \E c \in pair_colors : c.id = IntOfText(value.v)
    THEN Some((CHOOSE c \in pair_colors : c.id = IntOfText(value.v)).color)
    ELSE value

\* verify_and_fix_snapshot_colors(): the snapshot tables afterwards. The pass
\* reads and writes through a connection of its own; `locked`: another
\* connection holds an uncommitted write, and every UPDATE of the pass ends
\* with "database is locked", which _fix_color_value logs.
VerifyAndFixSnapshotColors(locked) ==
    IF locked \/ ~({"snapshots_meta", "pair_colors"} \subseteq schema)
    THEN snapshot_tables
    ELSE [t \in DOMAIN snapshot_tables |->
            IF \E m \in snapshots_meta : m.table_name = t
            THEN [p \in DOMAIN snapshot_tables[t] |->
                    [snapshot_tables[t][p] EXCEPT
                        !.colour = FixColorValue(@),
                        !.manual_colour = FixColorValue(@)]]
            ELSE snapshot_tables[t]]

\* The caller's connection holds an uncommitted write while the colour pass
\* runs: it has deleted a snapshots_meta row and commits after the pass.
HoldsUncommittedDeletes(orphans) == orphans # {}

\* verify_db_integrity(): on one connection the snapshots_meta rows of tables
\* that do not exist are deleted and the duplicate colours read; then the
\* colour pass; then the commit. A missing snapshots_meta or pair_colors raises
\* before the pass, and the deletes are rolled back.
VerifyIntegrity ==
    LET orphans == {m \in snapshots_meta : m.table_name \notin DOMAIN snapshot_tables}
    IN  /\ IF {"snapshots_meta", "pair_colors"} \subseteq schema
           THEN /\ snapshots_meta' = snapshots_meta \ orphans
                /\ snapshot_tables' =
                      VerifyAndFixSnapshotColors(HoldsUncommittedDeletes(orphans))
           ELSE UNCHANGED <<snapshots_meta, snapshot_tables>>
        /\ last_op' = [op |-> "verify_db_integrity"]
        /\ UNCHANGED <<clockVars, pageVars, netVars, schema, pair_colors, pair_colors_seq, used_pairs,
                       user_settings, tracks, tracks_seq, cacheVars, collVars>>

\* ------------------------------------------------------------------------
\* Settings as text (data_storage.py)
\* ------------------------------------------------------------------------

\* The Python values the dashboard hands to save_setting: None, a bool, an int,
\* a str (its characters), a list of str.
PyNone == [type |-> "NoneType", int |-> 0, text |-> <<>>, items |-> <<>>]

PyBool(b) == [type |-> "bool", int |-> IF b THEN 1 ELSE 0, text |-> <<>>, items |-> <<>>]

PyInt(n) == [type |-> "int", int |-> n, text |-> <<>>, items |-> <<>>]

PyStr(chars) == [type |-> "str", int |-> 0, text |-> chars, items |-> <<>>]

PyList(items) == [type |-> "list", int |-> 0, text |-> <<>>, items |-> items]

\* a == b: a bool is an int (True == 1); values of other types are equal when
\* of one type and of equal content
PyEq(a, b) ==
    IF a.type \in {"bool", "int"} /\ b.type \in {"bool", "int"}
    THEN a.int = b.int
    ELSE a = b

\* bool(v): None, False, 0, '' and [] are false
Truthy(v) ==
    CASE v.type = "NoneType" -> FALSE
      [] v.type \in {"bool", "int"} -> v.int # 0
      [] v.type = "str" -> v.text # <<>>
      [] v.type = "list" -> v.items # <<>>

\* str(n) of an int
IntText(n) == IF n < 0 THEN <<"-">> \o TextOfInt(0 - n) ELSE TextOfInt(n)

\* str(value), of a value that is no list
Str(v) ==
    CASE v.type = "NoneType" -> <<"N", "o", "n", "e">>
      [] v.type = "bool" -> IF v.int = 1 THEN <<"T", "r", "u", "e">>
                            ELSE <<"F", "a", "l", "s", "e">>
      [] v.type = "int" -> IntText(v.int)
      [] v.type = "str" -> v.text

RECURSIVE JsonItems(_)
\* The items of a list as json.dumps writes them: each in double quotes (none
\* of the strings kept needs an escape), separated by a comma and a space
JsonItems(items) ==
    IF items = <<>> THEN <<>>
    ELSE <<"\"">> \o Head(items) \o <<"\"">>
            \o (IF Len(items) > 1 THEN <<",", " ">> ELSE <<>>)
            \o JsonItems(Tail(items))

\* json.dumps(value), of a list of str
JsonDumps(v) == <<"[">> \o JsonItems(v.items) \o <<"]">>

\* A JSON integer: -?(0|[1-9][0-9]*)
IsJsonInt(text) ==
    LET digits == IF text # <<>> /\ Head(text) = "-" THEN Tail(text) ELSE text
    IN  /\ IsDigitText(digits)
        /\ Len(digits) > 1 => Head(digits) # "0"

JsonIntValue(text) ==
    IF Head(text) = "-" THEN 0 - IntOfText(Tail(text)) ELSE IntOfText(text)

RECURSIVE SkipSpaces(_, _)
\* The first position from i on that holds no space
SkipSpaces(text, i) ==
    IF i <= Len(text) /\ text[i] = " " THEN SkipSpaces(text, i + 1) ELSE i

\* The closing quote of the JSON string that opens at i (0: there is none); the
\* strings kept hold no backslash
ClosingQuote(text, i) ==
    IF \E j \in (i + 1)..Len(text) : text[j] = "\""
    THEN CHOOSE j \in (i + 1)..Len(text) :
            /\ text[j] = "\""
            /\ \A k \in (i + 1)..(j - 1) : text[k] # "\""
    ELSE 0

RECURSIVE JsonArrayItems(_, _)
\* The strings of a JSON array read from position i, which follows '[' or ',':
\* ok is false when what stands there is no array of strings
JsonArrayItems(text, i) ==
    LET start == SkipSpaces(text, i)
        close == IF start <= Len(text) /\ text[start] = "\""
                 THEN ClosingQuote(text, start) ELSE 0
        after == SkipSpaces(text, close + 1)
    IN  IF close = 0 \/ after > Len(text)
        THEN [ok |-> FALSE, items |-> <<>>]
        ELSE IF text[after] = "]"
        THEN [ok |-> after = Len(text),
              items |-> <<SubSeq(text, start + 1, close - 1)>>]
        ELSE IF text[after] = ","
        THEN LET rest == JsonArrayItems(text, after + 1)
             IN  [ok |-> rest.ok,
                  items |-> <<SubSeq(text, start + 1, close - 1)>> \o rest.items]
        ELSE [ok |-> FALSE, items |-> <<>>]

\* json.loads(text): the value of a JSON null, true, false, integer, string or
\* array of strings; anything else raises (ok is false)
JsonLoads(text) ==
    IF text = <<"n", "u", "l", "l">> THEN [ok |-> TRUE, value |-> PyNone]
    ELSE IF text = <<"t", "r", "u", "e">> THEN [ok |-> TRUE, value |-> PyBool(TRUE)]
    ELSE IF text = <<"f", "a", "l", "s", "e">> THEN [ok |-> TRUE, value |-> PyBool(FALSE)]
    ELSE IF IsJsonInt(text) THEN [ok |-> TRUE, value |-> PyInt(JsonIntValue(text))]
    ELSE IF Len(text) >= 2 /\ Head(text) = "\"" /\ ClosingQuote(text, 1) = Len(text)
    THEN [ok |-> TRUE, value |-> PyStr(SubSeq(text, 2, Len(text) - 1))]
    ELSE IF Len(text) >= 2 /\ Head(text) = "[" /\ SkipSpaces(text, 2) = Len(text)
                /\ text[Len(text)] = "]"
    THEN [ok |-> TRUE, value |-> PyList(<<>>)]
    ELSE IF text # <<>> /\ Head(text) = "["
    THEN LET arr == JsonArrayItems(text, 2)
         IN  [ok |-> arr.ok, value |-> PyList(arr.items)]
    ELSE [ok |-> FALSE, value |-> PyNone]

\* The text save_setting stores for a value: json.dumps of a list, str of
\* anything else
SettingText(value) ==
    [fmt |-> "text", val |-> IF value.type = "list" THEN JsonDumps(value) ELSE Str(value)]

\* try: json.loads(value) except: value
JsonLoadsOrText(text) ==
    IF text.fmt = "text"
    THEN LET loaded == JsonLoads(text.val)
         IN  IF loaded.ok THEN loaded.value ELSE PyStr(text.val)
    ELSE IF text.fmt = "json" \/ text.val \in Int THEN text.val ELSE text

\* save_setting(key, value)
SaveSetting(key, value) ==
    /\ IF "user_settings" \in schema
       THEN user_settings' = [k \in DOMAIN user_settings \cup {key} |->
                                 IF k = key THEN SettingText(value) ELSE user_settings[k]]
       ELSE UNCHANGED user_settings
    /\ last_op' = [op |-> "save_setting", key |-> key, value |-> value]
    /\ UNCHANGED <<clockVars, pageVars, netVars, schema, pair_colors, pair_colors_seq, used_pairs,
                   snapshots_meta, snapshot_tables, tracks, tracks_seq, cacheVars, collVars>>

\* save_setting(key, value) of an integer: str(value)
SaveSettingInt(key, value) ==
    /\ IF "user_settings" \in schema
       THEN user_settings' = [k \in DOMAIN user_settings \cup {key} |->
                                 IF k = key THEN StrText(value) ELSE user_settings[k]]
       ELSE UNCHANGED user_settings
    /\ last_op' = [op |-> "save_setting", key |-> key]
    /\ UNCHANGED <<clockVars, pageVars, netVars, schema, pair_colors, pair_colors_seq, used_pairs,
                   snapshots_meta, snapshot_tables, tracks, tracks_seq, cacheVars, collVars>>

\* get_setting(key, default)
GetSetting(key, default) ==
    IF "user_settings" \in schema /\ key \in DOMAIN user_settings
    THEN JsonLoadsOrText(user_settings[key])
    ELSE default

manual_pairs_cache_ttl == 60

\* save_manual_pairs(pairs): save_setting('manual_pairs', json.dumps(pairs)),
\* which str() leaves as it is, then invalidate_manual_pairs_cache()
SaveManualPairs(pairs) ==
    /\ IF "user_settings" \in schema
       THEN user_settings' = [k \in DOMAIN user_settings \cup {"manual_pairs"} |->
                                 IF k = "manual_pairs" THEN JsonText(pairs)
                                 ELSE user_settings[k]]
       ELSE UNCHANGED user_settings
    /\ manual_pairs_cache' = NoCache
    /\ last_op' = [op |-> "save_manual_pairs", pairs |-> pairs]
    /\ UNCHANGED <<clockVars, pageVars, netVars, schema, pair_colors, pair_colors_seq, used_pairs,
                   snapshots_meta, snapshot_tables, tracks, tracks_seq, pair_color_cache,
                   collVars>>

\* get_manual_pairs() with the cache as `cache`: the list returned and the cache
\* it leaves
GetManualPairs(cache) ==
    IF cache.set /\ now - cache.time < manual_pairs_cache_ttl
    THEN [ret |-> cache.val, cache |-> cache]
    ELSE LET result == GetSetting("manual_pairs", {})
         IN  [ret |-> result, cache |-> [set |-> TRUE, val |-> result, time |-> now]]

\* ------------------------------------------------------------------------
\* Tracks (track_builder.py, manual_tracks_manager.py)
\* ------------------------------------------------------------------------

\* The tracks rows one behaviour may insert before it stops building.
MaxTracks == 2

Abs(n) == IF n < 0 THEN 0 - n ELSE n

RECURSIVE Orderings(_)
\* The sequences that list every member of S once.
Orderings(S) ==
    IF S = {} THEN {<<>>}
    ELSE UNION {{<<x>> \o o : o \in Orderings(S \ {x})} : x \in S}

\* The direction with the two comparisons exchanged.
DirectionSwapped(prev_rank, new_rank) ==
    IF new_rank > prev_rank THEN "up"
    ELSE IF new_rank < prev_rank THEN "down"
    ELSE "flat"

\* 'up' when the rank fell (a better position), 'down' when it rose, else 'flat'
Direction(prev_rank, new_rank) ==
    IF new_rank < prev_rank THEN "up"
    ELSE IF new_rank > prev_rank THEN "down"
    ELSE "flat"

\* TrackPoint(time, rank, price, change, volume, color, is_manual, is_highlighted=True)
TrackPointOf(time, row, color_hex, is_manual) ==
    [time |-> time, rank |-> row.rank, price |-> row.price, change |-> row.change_24h,
     volume |-> row.volume_24h, color |-> color_hex, is_manual |-> is_manual,
     is_highlighted |-> TRUE]

\* _create_track_from_two_points(pair, prev_df, prev_time, new_df, new_time,
\* color_hex, is_manual); control_point is kept as the span between the two
\* times (120 times its minutes) and the sum of the two ranks (twice its rank).
CreateTrackFromTwoPoints(pair, prev_df, prev_time, new_df, new_time, color_hex, is_manual) ==
    LET prev_point == TrackPointOf(prev_time, prev_df[pair], color_hex, is_manual)
        new_point == TrackPointOf(new_time, new_df[pair], color_hex, is_manual)
    IN  [pair |-> pair,
         points |-> <<prev_point, new_point>>,
         direction |-> Direction(prev_point.rank, new_point.rank),
         start_time |-> prev_time,
         end_time |-> new_time,
         start_rank |-> prev_point.rank,
         end_rank |-> new_point.rank,
         control_point |-> <<Duration(prev_time, new_time),
                             prev_point.rank + new_point.rank>>,
         color |-> color_hex,
         track_type |-> IF is_manual THEN "manual" ELSE "auto",
         is_manual |-> is_manual,
         error_score |-> 0,
         last_highlighted_time |-> new_time]

\* A JSON document that is an object of named members (one that is an array has
\* json "array" and its items).
JsonObject(members) == [json |-> "object", members |-> members, items |-> <<>>]

\* track_dict of save_tracks_to_db: the times written by isoformat(); the
\* segment's is_manual and last_highlighted_time are not among its members.
TrackDict(track) ==
    [points |-> [i \in DOMAIN track.points |->
                    [time |-> IsoFormat(track.points[i].time),
                     rank |-> track.points[i].rank,
                     price |-> track.points[i].price,
                     change |-> track.points[i].change,
                     volume |-> track.points[i].volume,
                     color |-> track.points[i].color,
                     is_manual |-> track.points[i].is_manual,
                     is_highlighted |-> track.points[i].is_highlighted]],
     direction |-> track.direction,
     start_time |-> IsoFormat(track.start_time),
     end_time |-> IsoFormat(track.end_time),
     start_rank |-> track.start_rank,
     end_rank |-> track.end_rank,
     control_point |-> track.control_point,
     color |-> track.color,
     track_type |-> track.track_type,
     error_score |-> track.error_score]

\* The rows save_tracks_to_db(tracks, exchange, market_type) inserts for the
\* segments `segs` (in the order of the dict and its lists), the first with id
\* seq + 1: track_data is json.dumps(track_dict), one object per row;
\* updated_at, equal to created_at, is left out.
TrackRows(segs, venue, seq) ==
    {[id |-> seq + i,
      pair |-> segs[i].pair,
      exchange |-> venue.exchange,
      market_type |-> venue.market_type,
      track_data |-> JsonObject(TrackDict(segs[i])),
      last_highlighted_time |-> IsoFormat(segs[i].last_highlighted_time),
      created_at |-> IsoFormat(Now)] : i \in DOMAIN segs}

\* track_dict.get(key, default)
DictGet(d, key, default) == IF key \in DOMAIN d THEN d[key] ELSE default

\* A loader that reads the two ranks of a track_dict into each other's field.
SegmentOfDictRanksSwapped(pair_name, d) ==
    [pair |-> pair_name,
     points |-> [i \in DOMAIN d.points |->
                    [time |-> ParseIso(d.points[i].time),
                     rank |-> d.points[i].rank,
                     price |-> d.points[i].price,
                     change |-> d.points[i].change,
                     volume |-> d.points[i].volume,
                     color |-> DictGet(d.points[i], "color", <<>>),
                     is_manual |-> DictGet(d.points[i], "is_manual", FALSE),
                     is_highlighted |-> DictGet(d.points[i], "is_highlighted", FALSE)]],
     direction |-> DictGet(d, "direction", "flat"),
     start_time |-> ParseIso(d.start_time),
     end_time |-> ParseIso(d.end_time),
     start_rank |-> DictGet(d, "end_rank", 0),
     end_rank |-> DictGet(d, "start_rank", 0),
     control_point |-> DictGet(d, "control_point", <<[s |-> 0, us |-> 0], 0>>),
     color |-> DictGet(d, "color", ColorWhite),
     track_type |-> DictGet(d, "track_type", "auto"),
     is_manual |-> FALSE,
     error_score |-> DictGet(d, "error_score", 0),
     last_highlighted_time |-> ParseIso(d.end_time)]

\* The TrackSegment load_tracks_from_db makes of one track_dict of a row of
\* pair_name: the points and times parsed back, is_manual left at its default,
\* last_highlighted_time taken from the last highlighted point.
SegmentOfDict(pair_name, d) ==
    LET points == [i \in DOMAIN d.points |->
                      [time |-> ParseIso(d.points[i].time),
                       rank |-> d.points[i].rank,
                       price |-> d.points[i].price,
                       change |-> d.points[i].change,
                       volume |-> d.points[i].volume,
                       color |-> DictGet(d.points[i], "color", <<>>),
                       is_manual |-> DictGet(d.points[i], "is_manual", FALSE),
                       is_highlighted |-> DictGet(d.points[i], "is_highlighted", FALSE)]]
        highlighted == {i \in DOMAIN points : points[i].is_highlighted}
        last_i == CHOOSE i \in highlighted : \A k \in highlighted : k <= i
    IN  [pair |-> pair_name,
         points |-> points,
         direction |-> DictGet(d, "direction", "flat"),
         start_time |-> ParseIso(d.start_time),
         end_time |-> ParseIso(d.end_time),
         start_rank |-> DictGet(d, "start_rank", 0),
         end_rank |-> DictGet(d, "end_rank", 0),
         control_point |-> DictGet(d, "control_point", <<[s |-> 0, us |-> 0], 0>>),
         color |-> DictGet(d, "color", ColorWhite),
         track_type |-> DictGet(d, "track_type", "auto"),
         is_manual |-> FALSE,
         error_score |-> DictGet(d, "error_score", 0),
         last_highlighted_time |-> IF highlighted = {} THEN Instant(0, 0)
                                   ELSE points[last_i].time]

\* The segments load_tracks_from_db reads from one row: a dict is one track, a
\* list is its tracks; a track without points, or with no point, is skipped.
RowSegments(row) ==
    LET track_list == IF row.track_data.json = "object"
                      THEN <<row.track_data.members>>
                      ELSE row.track_data.items
        usable == SelectSeq(track_list,
                            LAMBDA d : "points" \in DOMAIN d /\ Len(d.points) > 0)
    IN  [i \in DOMAIN usable |-> SegmentOfDict(row.pair, usable[i])]

\* A row as the loop of load_tracks_from_db reads it: its pair and the segments
\* made of its track_data; id and created_at kept for the order of the rows.
DecodedRow(row) ==
    [id |-> row.id, pair |-> row.pair, created_at |-> row.created_at,
     segments |-> RowSegments(row)]

RECURSIVE SegmentsOfRows(_)
\* all_tracks[pair_name].extend(tracks_for_pair), over the decoded rows of one
\* pair in query order
SegmentsOfRows(rows) ==
    IF rows = <<>> THEN <<>>
    ELSE Head(rows).segments \o SegmentsOfRows(Tail(rows))

\* The rows the query of load_tracks_from_db selects: of the exchange and
\* market, of `pair` unless it is "None", with created_at >= cutoff.
LoadedRows(rows, venue, pair, lookback_hours) ==
    LET cutoff_time == IsoFormat(MinusHours(Now, lookback_hours))
    IN  {r \in rows : /\ r.exchange = venue.exchange
                      /\ r.market_type = venue.market_type
                      /\ (pair = "None" \/ r.pair = pair)
                      /\ ~StrLess(r.created_at, cutoff_time)}

\* ORDER BY created_at DESC: the orders the rows can come in
QueryOrders(selected) ==
    {o \in Orderings(selected) :
        \A i, j \in DOMAIN o : i < j => ~StrLess(o[i].created_at, o[j].created_at)}

\* The dicts load_tracks_from_db can return for the selected rows: under each
\* pair the segments of its rows, in one of the orders the query can give them;
\* a pair none of whose rows gives a segment has no key.
LoadedTracks(selected) ==
    LET decoded == {DecodedRow(r) : r \in selected}
        pairs == {d.pair : d \in decoded}
        lists == UNION {{[pair |-> p, list |-> SegmentsOfRows(o)] :
                            o \in QueryOrders({d \in decoded : d.pair = p})} : p \in pairs}
        choices == {c \in SUBSET lists :
                       \A p \in pairs : Cardinality({x \in c : x.pair = p}) = 1}
    IN  {[p \in {x.pair : x \in {y \in c : y.list # <<>>}} |->
             (CHOOSE x \in c : x.pair = p).list] : c \in choices}

\* load_tracks_from_db(exchange, market_type, pair, lookback_hours)
LoadTracksFromDb(venue, pair, lookback_hours) ==
    /\ IF "tracks" \in schema
       THEN \E ret \in LoadedTracks(LoadedRows(tracks, venue, pair, lookback_hours)) :
               last_op' = [op |-> "load_tracks_from_db", venue |-> venue, pair |-> pair,
                           lookback_hours |-> lookback_hours, ret |-> ret]
       ELSE last_op' = [op |-> "load_tracks_from_db", venue |-> venue, pair |-> pair,
                        lookback_hours |-> lookback_hours, ret |-> <<>>]
    /\ UNCHANGED <<clockVars, pageVars, netVars, dbVars, cacheVars, collVars>>

\* json_extract(track_data, '$[0].track_type'): the member of the first item of
\* an array; NULL for a document that is not an array
JsonExtractFirstTrackType(doc) ==
    IF doc.json = "array" /\ Len(doc.items) > 0 /\ "track_type" \in DOMAIN doc.items[1]
    THEN doc.items[1].track_type
    ELSE "NULL"

\* The rows the DELETE of remove_manual_tracks matches.
ManualRowsMatched(rows, pair, venue) ==
    {r \in rows : /\ r.pair = pair
                  /\ r.exchange = venue.exchange
                  /\ r.market_type = venue.market_type
                  /\ JsonExtractFirstTrackType(r.track_data) = "manual"}

\* remove_manual_tracks(pair, exchange, market_type)
RemoveManualTracks(pair, venue) ==
    /\ IF "tracks" \in schema
       THEN tracks' = tracks \ ManualRowsMatched(tracks, pair, venue)
       ELSE UNCHANGED tracks
    /\ last_op' = [op |-> "remove_manual_tracks", pair |-> pair, venue |-> venue]
    /\ UNCHANGED <<clockVars, pageVars, netVars, schema, pair_colors, pair_colors_seq, used_pairs,
                   snapshots_meta, snapshot_tables, user_settings, tracks_seq,
                   cacheVars, collVars>>

\* ------------------------------------------------------------------------
\* Track building (analytics_engine.py)
\* ------------------------------------------------------------------------

\* The rows of snapshots_meta as (table_name, exchange_time, created_at), the
\* times parsed by datetime.fromisoformat
SnapshotTuple(m) ==
    [table_name |-> m.table_name, exchange_time |-> ParseIso(m.exchange_timestamp),
     created_at |-> ParseIso(m.created_at)]

VenueMeta(venue) ==
    {m \in snapshots_meta : m.exchange = venue.exchange /\ m.market_type = venue.market_type}

\* get_latest_snapshots(exchange, market_type, limit): ORDER BY
\* exchange_timestamp DESC LIMIT limit, the lists it can return
GetLatestSnapshots(venue, limit) ==
    IF "snapshots_meta" \notin schema
    THEN {<<>>}
    ELSE {[i \in 1..Min(limit, Len(o)) |-> SnapshotTuple(o[i])] :
             o \in {x \in Orderings(VenueMeta(venue)) :
                       \A i, j \in DOMAIN x :
                           i < j => ~StrLess(x[i].exchange_timestamp, x[j].exchange_timestamp)}}

RECURSIVE AscendingOrders(_)
\* ORDER BY exchange_timestamp ASC: the orders the rows can come in, rows of
\* one exchange_timestamp in any order.
AscendingOrders(rows) ==
    IF rows = {} THEN {<<>>}
    ELSE UNION {{<<m>> \o o : o \in AscendingOrders(rows \ {m})} :
                   m \in {x \in rows : \A y \in rows :
                              ~StrLess(y.exchange_timestamp, x.exchange_timestamp)}}

RECURSIVE DescendingOrders(_)
\* The rows latest exchange_timestamp first.
DescendingOrders(rows) ==
    IF rows = {} THEN {<<>>}
    ELSE UNION {{<<m>> \o o : o \in DescendingOrders(rows \ {m})} :
                   m \in {x \in rows : \A y \in rows :
                              ~StrLess(x.exchange_timestamp, y.exchange_timestamp)}}

\* The snapshots of the venue latest first.
GetAllSnapshotsDescending(venue) ==
    IF "snapshots_meta" \notin schema
    THEN {<<>>}
    ELSE {[i \in DOMAIN o |-> SnapshotTuple(o[i])] : o \in DescendingOrders(VenueMeta(venue))}

\* _get_all_snapshots_sorted(exchange, market_type): ORDER BY exchange_timestamp
\* ASC, the lists it can return
GetAllSnapshotsSorted(venue) ==
    IF "snapshots_meta" \notin schema
    THEN {<<>>}
    ELSE {[i \in DOMAIN o |-> SnapshotTuple(o[i])] : o \in AscendingOrders(VenueMeta(venue))}

\* get_snapshot_data(table_name): the rows of the table, none when it is missing
GetSnapshotData(table_name) ==
    IF table_name \in DOMAIN snapshot_tables THEN snapshot_tables[table_name] ELSE <<>>

\* The test with a strict comparison: a difference equal to the threshold fails it.
QualifiesStrict(is_manual, rank_diff, rank_threshold) == is_manual \/ rank_diff > rank_threshold

\* is_manual or rank_diff >= rank_threshold
Qualifies(is_manual, rank_diff, rank_threshold) == is_manual \/ rank_diff >= rank_threshold

\* The pairs of both tables for which _process_snapshot_pair creates a track.
QualifyingPairs(prev_df, new_df, rank_threshold, manual_pairs) ==
    {pair \in DOMAIN new_df \cap DOMAIN prev_df :
        Qualifies(pair \in manual_pairs,
                  Abs(new_df[pair].rank - prev_df[pair].rank), rank_threshold)}

\* color_hex if color_hex else "#FF0000"
ColorRed == <<"#", "F", "F", "0", "0", "0", "0">>

RECURSIVE ProcessPairsInOrder(_, _, _, _, _, _, _)
\* The loop of _process_snapshot_pair over the qualifying pairs in the order
\* `order`, from the colour store cs: the runs it can take, each the store it
\* leaves and the tracks it appends to all_tracks.
ProcessPairsInOrder(cs, has_table, order, prev, new, manual_pairs, processed) ==
    IF order = <<>>
    THEN {[store |-> cs, created |-> <<>>]}
    ELSE LET pair == Head(order)
             prev_df == GetSnapshotData(prev.table_name)
             new_df == GetSnapshotData(new.table_name)
         IN  IF <<pair, prev.exchange_time, new.exchange_time>> \in processed
             THEN ProcessPairsInOrder(cs, has_table, Tail(order), prev, new,
                                      manual_pairs, processed)
             ELSE UNION {
                    {[store |-> rest.store,
                      created |-> <<CreateTrackFromTwoPoints(
                                       pair, prev_df, prev.exchange_time,
                                       new_df, new.exchange_time,
                                       IF o.ret.color = <<>> THEN ColorRed ELSE o.ret.color,
                                       pair \in manual_pairs)>> \o rest.created] :
                        rest \in ProcessPairsInOrder(o.store, has_table, Tail(order), prev, new,
                                                     manual_pairs, processed)} :
                    o \in PairColorOutcomes(cs, has_table, pair)}

\* _process_snapshot_pair(prev, new, rank_threshold, all_tracks, processed_pairs)
\* from the colour store cs and the manual-pair cache `cache`: the runs it can
\* take, each with the list get_manual_pairs returned and the cache it left.
\* The common pairs are a Python set: they come in any order.
ProcessSnapshotPair(cs, cache, prev, new, rank_threshold, processed) ==
    LET prev_df == GetSnapshotData(prev.table_name)
        new_df == GetSnapshotData(new.table_name)
        manual == GetManualPairs(cache)
        result == manual.ret
        cache_after == manual.cache
    IN  IF DOMAIN new_df = {} \/ DOMAIN prev_df = {}
        THEN {[store |-> cs, cache |-> cache, created |-> <<>>, manual_pairs |-> {},
               read |-> FALSE]}
        ELSE {[store |-> run.store, cache |-> cache_after, created |-> run.created,
               manual_pairs |-> result, read |-> TRUE] :
                 run \in UNION {ProcessPairsInOrder(cs, "pair_colors" \in schema, order,
                                                    prev, new, result, processed) :
                                   order \in Orderings(QualifyingPairs(prev_df, new_df,
                                                                       rank_threshold, result))}}

\* The dict all_tracks as save_tracks_to_db walks it: the tracks grouped by
\* pair, the pairs in the order of their first track.
RECURSIVE GroupByPair(_)
GroupByPair(created) ==
    IF created = <<>> THEN <<>>
    ELSE SelectSeq(created, LAMBDA t : t.pair = Head(created).pair)
             \o GroupByPair(SelectSeq(created, LAMBDA t : t.pair # Head(created).pair))

\* build_and_save_two_point_tracks(exchange, market_type, rebuild_all=False):
\* create_tracks_table(), the threshold of the settings (5 unless saved), the two
\* latest snapshots by exchange time with snapshots[0] the new one and
\* snapshots[1] the previous, _process_snapshot_pair, save_tracks_to_db.
BuildIncremental(venue) ==
    /\ tracks_seq < MaxTracks
    /\ schema' = schema \cup {"tracks"}
    /\ \E snapshots \in GetLatestSnapshots(venue, 2) :
          IF Len(snapshots) < 2
          THEN /\ last_op' = [op |-> "build", venue |-> venue, built |-> <<>>,
                              processed |-> FALSE]
               /\ UNCHANGED <<pair_colors, pair_colors_seq, pair_color_cache,
                              manual_pairs_cache, tracks, tracks_seq>>
          ELSE \E run \in ProcessSnapshotPair(ColorStore, manual_pairs_cache, snapshots[2],
                                              snapshots[1], GetSetting("rank_threshold", 5),
                                              {}) :
                  /\ pair_colors' = run.store.rows
                  /\ pair_colors_seq' = run.store.seq
                  /\ pair_color_cache' = run.store.cache
                  /\ manual_pairs_cache' = run.cache
                  /\ tracks' = tracks \cup TrackRows(GroupByPair(run.created), venue, tracks_seq)
                  /\ tracks_seq' = tracks_seq + Len(run.created)
                  /\ last_op' = [op |-> "build", venue |-> venue,
                                 built |-> GroupByPair(run.created), processed |-> TRUE,
                                 prev |-> snapshots[2], new |-> snapshots[1],
                                 rank_threshold |-> GetSetting("rank_threshold", 5),
                                 manual_pairs |-> run.manual_pairs]
    /\ UNCHANGED <<clockVars, pageVars, netVars, used_pairs, snapshots_meta, snapshot_tables, user_settings,
                   collVars>>

\* ------------------------------------------------------------------------
\* Rebuild mode (analytics_engine.py)
\* ------------------------------------------------------------------------

\* range(i + 1, min(i + 20, len(snapshots)))
look_ahead == 20

\* if diff_from_target <= 30
tolerance_seconds == 30

\* The tolerance test with a strict comparison.
WithinToleranceStrict(diff_from_target) == diff_from_target.s < tolerance_seconds

\* diff_from_target <= 30
WithinTolerance(diff_from_target) == SpanAtMost(diff_from_target, tolerance_seconds)

\* abs((next_time - current_time).total_seconds() - target_interval_seconds)
DiffFromTarget(current, next, target) ==
    AbsDiffFrom(Duration(current.exchange_time, next.exchange_time), target)

RECURSIVE LookAhead(_, _, _, _, _, _)
\* The look-ahead loop from snapshot i, at index j (indices from 1, `last` the
\* last index the range gives): the best_match_index it ends with, 0 for -1;
\* best_diff is read only once best_index is set.
LookAhead(snapshots, i, j, last, target, best) ==
    IF j > last THEN best.index
    ELSE LET diff_from_target == DiffFromTarget(snapshots[i], snapshots[j], target)
         IN  IF WithinTolerance(diff_from_target) THEN j
             ELSE IF best.index = 0 \/ SpanLess(diff_from_target, best.diff)
             THEN LookAhead(snapshots, i, j + 1, last, target,
                            [index |-> j, diff |-> diff_from_target])
             ELSE LookAhead(snapshots, i, j + 1, last, target, best)

\* The look-ahead that keeps no candidate outside the tolerance: the first
\* snapshot within it, 0 when there is none.
BestMatchWithinTolerance(snapshots, i, target) ==
    LET found == {j \in (i + 1)..Min(i + look_ahead - 1, Len(snapshots)) :
                     WithinTolerance(DiffFromTarget(snapshots[i], snapshots[j], target))}
    IN  IF found = {} THEN 0 ELSE CHOOSE j \in found : \A x \in found : j <= x

\* best_match_index after the look-ahead from snapshot i
BestMatchIndex(snapshots, i, target) ==
    LookAhead(snapshots, i, i + 1, Min(i + look_ahead - 1, Len(snapshots)), target,
              [index |-> 0, diff |-> [s |-> 0, us |-> 0]])

\* processed_pairs.add(pair_key), for every track a processing created
ProcessedKeys(created) ==
    {<<created[k].pair, created[k].start_time, created[k].end_time>> : k \in DOMAIN created}

RECURSIVE Walk(_, _, _, _, _, _, _)
\* The while loop of rebuild mode from snapshot i: the runs it can take, each
\* with the colour store and manual-pair cache it leaves, the tracks appended
\* to all_tracks and the pairs of snapshot indices it processed, in order.
Walk(snapshots, i, target, rank_threshold, cs, cache, processed) ==
    LET best_match_index == BestMatchIndex(snapshots, i, target)
        next_index == IF best_match_index # 0 THEN best_match_index
                      ELSE IF i + 1 <= Len(snapshots) THEN i + 1
                      ELSE 0
    IN  IF i > Len(snapshots) \/ next_index = 0
        THEN {[store |-> cs, cache |-> cache, created |-> <<>>, walk |-> <<>>]}
        ELSE UNION {
               {[store |-> rest.store, cache |-> rest.cache,
                 created |-> run.created \o rest.created,
                 walk |-> <<[prev |-> i, new |-> next_index]>> \o rest.walk] :
                   rest \in Walk(snapshots, next_index, target, rank_threshold, run.store,
                                 run.cache, processed \cup ProcessedKeys(run.created))} :
               run \in ProcessSnapshotPair(cs, cache, snapshots[i], snapshots[next_index],
                                           rank_threshold, processed)}

\* target_interval_seconds = None
NoTarget == [given |-> FALSE, seconds |-> 0]

\* target_interval_seconds = n
Seconds(n) == [given |-> TRUE, seconds |-> n]

\* target_interval_seconds, read from the setting 'interval' when None
TargetInterval(target_interval_seconds) ==
    IF ~target_interval_seconds.given
    THEN LET setting == GetSetting("interval", 60)
         IN  IF setting \in Int THEN setting ELSE 60
    ELSE target_interval_seconds.seconds

\* build_and_save_two_point_tracks(exchange, market_type, rebuild_all=True,
\* target_interval_seconds): create_tracks_table(), the tracks of the exchange
\* and market deleted, all its snapshots by exchange time, the walk,
\* save_tracks_to_db.
Rebuild(venue, target_interval_seconds) ==
    LET target == TargetInterval(target_interval_seconds)
        kept == {r \in tracks : r.exchange # venue.exchange
                                  \/ r.market_type # venue.market_type}
    IN  /\ tracks_seq < MaxTracks
        /\ schema' = schema \cup {"tracks"}
        /\ \E snapshots \in GetAllSnapshotsSorted(venue) :
              IF Len(snapshots) < 2
              THEN /\ tracks' = kept
                   /\ last_op' = [op |-> "rebuild", venue |-> venue, target |-> target,
                                  snapshots |-> snapshots, walk |-> <<>>, built |-> <<>>]
                   /\ UNCHANGED <<pair_colors, pair_colors_seq, pair_color_cache,
                                  manual_pairs_cache, tracks_seq>>
              ELSE \E run \in Walk(snapshots, 1, target, GetSetting("rank_threshold", 5),
                                   ColorStore, manual_pairs_cache, {}) :
                      /\ pair_colors' = run.store.rows
                      /\ pair_colors_seq' = run.store.seq
                      /\ pair_color_cache' = run.store.cache
                      /\ manual_pairs_cache' = run.cache
                      /\ tracks' = kept \cup TrackRows(GroupByPair(run.created), venue,
                                                       tracks_seq)
                      /\ tracks_seq' = tracks_seq + Len(run.created)
                      /\ last_op' = [op |-> "rebuild", venue |-> venue, target |-> target,
                                     snapshots |-> snapshots, walk |-> run.walk,
                                     built |-> GroupByPair(run.created)]
        /\ UNCHANGED <<clockVars, pageVars, netVars, used_pairs, snapshots_meta, snapshot_tables,
                       user_settings, collVars>>

\* ------------------------------------------------------------------------
\* The manual-highlight list saved from the Configuration page
\* (config_page.py), whose DataStorage is not the collector's
\* ------------------------------------------------------------------------

\* _save_manual_pairs_and_update_colors(manual_pairs) for a list that only
\* drops pairs of the saved one (no pair is added, so the colour branch is not
\* entered): save_setting('manual_pairs', manual_pairs) on the DataStorage of
\* the page, then remove_manual_tracks for every removed pair. Neither touches
\* the manual-pair cache of the DataStorage the collector was started with.
PageRemoveManualPairs(manual_pairs, venue) ==
    LET current_manual_pairs == GetSetting("manual_pairs", {})
        removed_pairs == current_manual_pairs \ manual_pairs
    IN  /\ manual_pairs \subseteq current_manual_pairs
        /\ removed_pairs # {}
        /\ IF "user_settings" \in schema
           THEN user_settings' = [k \in DOMAIN user_settings \cup {"manual_pairs"} |->
                                     IF k = "manual_pairs" THEN JsonText(manual_pairs)
                                     ELSE user_settings[k]]
           ELSE UNCHANGED user_settings
        /\ IF "tracks" \in schema
           THEN tracks' = tracks \ UNION {ManualRowsMatched(tracks, pair, venue) :
                                             pair \in removed_pairs}
           ELSE UNCHANGED tracks
        /\ last_op' = [op |-> "page_save_manual_pairs", pairs |-> manual_pairs,
                       removed |-> removed_pairs]
        /\ UNCHANGED <<clockVars, pageVars, netVars, schema, pair_colors, pair_colors_seq, used_pairs,
                       snapshots_meta, snapshot_tables, tracks_seq, cacheVars, collVars>>

\* ------------------------------------------------------------------------
\* Specification: snapshots, incremental track building, loading and removal
\* of manual tracks on one DataStorage
\* ------------------------------------------------------------------------

\* The clock step: a second more than the lookback, so that a row falls out of
\* the window with one step.
AnalyticsClockSteps == {3601}

\* How often the clock advances in one behaviour of the analytics specification.
MaxAnalyticsTicks == 1

\* The lists save_manual_pairs is called with.
ManualPairSamples == {{}, {"ETH/USDT"}}

\* The values the rank threshold is saved with.
RankThresholdSamples == {2}

\* The lookback (hours) tracks are loaded with.
LookbackSamples == {1}

\* The pair filter tracks are loaded with ("None": every pair).
LoadPairSamples == {"None", "ETH/USDT"}

\* The pairs whose manual tracks are removed.
RemovePairSamples == {"ETH/USDT"}

\* How many seconds the exchange time of the top ticker lies behind the clock
\* when its snapshot is saved: none, or more than a clock step, so that a
\* snapshot saved later can carry the earlier exchange time.
LagSamples == {0, 3700}

\* The exchange and market the collector is started for.
CollectedVenue == [exchange |-> "binance", market_type |-> "spot"]

InitAnalytics ==
    /\ InitClock
    /\ InitDb
    /\ InitCaches
    /\ InitCollector
    /\ InitPage
    /\ InitNet
    /\ last_op = NoOp

NextAnalytics ==
    \/ \E ranking \in Rankings : SaveSnapshot(CollectedVenue, ranking, 0)
    \/ \E pairs \in ManualPairSamples : SaveManualPairs(pairs)
    \/ \E t \in RankThresholdSamples : SaveSettingInt("rank_threshold", t)
    \/ BuildIncremental(CollectedVenue)
    \/ \E pair \in LoadPairSamples : \E h \in LookbackSamples :
          LoadTracksFromDb(CollectedVenue, pair, h)
    \/ \E venue \in Venues : \E pair \in RemovePairSamples : RemoveManualTracks(pair, venue)
    \/ \E d \in AnalyticsClockSteps : Tick(d, 0, MaxAnalyticsTicks)

SpecAnalytics == InitAnalytics /\ [][NextAnalytics]_vars


\* ------------------------------------------------------------------------
\* Specification: incremental track building over snapshots whose exchange
\* time lags the time they are saved at
\* ------------------------------------------------------------------------

NextIncremental ==
    \/ \E ranking \in Rankings : \E lag \in LagSamples :
          SaveSnapshot(CollectedVenue, ranking, lag)
    \/ \E pairs \in ManualPairSamples : SaveManualPairs(pairs)
    \/ \E t \in RankThresholdSamples : SaveSettingInt("rank_threshold", t)
    \/ BuildIncremental(CollectedVenue)
    \/ \E d \in AnalyticsClockSteps : Tick(d, 0, MaxAnalyticsTicks)

SpecIncremental == InitAnalytics /\ [][NextIncremental]_vars

\* ------------------------------------------------------------------------
\* Properties of track building, loading and removal
\* ------------------------------------------------------------------------

\* The tracks the build step that ends in the next state made for `pair`.
BuiltFor(pair) ==
    {i \in DOMAIN last_op'.built : last_op'.built[i].pair = pair}

\* C4: in the pairwise processing of a (prev, new) snapshot pair with threshold
\* T, a pair of both snapshots that is not on the manual list yields a track
\* (of type auto) exactly when |new_rank - prev_rank| >= T, a pair of both
\* snapshots on the manual list yields a track of type manual whatever the
\* difference, and a pair of only one snapshot yields none.
ThresholdOrManualDecidesTrack ==
    [][(last_op'.op = "build" /\ last_op'.processed) =>
        LET prev_df == GetSnapshotData(last_op'.prev.table_name)
            new_df == GetSnapshotData(last_op'.new.table_name)
        IN  \A pair \in Pairs :
               IF pair \in DOMAIN prev_df /\ pair \in DOMAIN new_df
               THEN IF pair \in last_op'.manual_pairs
                    THEN /\ BuiltFor(pair) # {}
                         /\ \A i \in BuiltFor(pair) : last_op'.built[i].track_type = "manual"
                    ELSE /\ BuiltFor(pair) # {}
                              <=> Abs(new_df[pair].rank - prev_df[pair].rank)
                                     >= last_op'.rank_threshold
                         /\ \A i \in BuiltFor(pair) : last_op'.built[i].track_type = "auto"
               ELSE BuiltFor(pair) = {}]_vars

\* C4 witness: one processing in which a manual pair of unchanged rank got a
\* manual track, a pair off the list whose rank moved by exactly the threshold
\* got an auto track, and a pair off the list is in only one of the snapshots.
ManualFlatAndThresholdTrackBuilt ==
    /\ last_op.op = "build"
    /\ last_op.processed
    /\ \E i \in DOMAIN last_op.built :
          /\ last_op.built[i].pair \in last_op.manual_pairs
          /\ last_op.built[i].track_type = "manual"
          /\ last_op.built[i].start_rank = last_op.built[i].end_rank
    /\ \E i \in DOMAIN last_op.built :
          /\ last_op.built[i].pair \notin last_op.manual_pairs
          /\ last_op.built[i].track_type = "auto"
          /\ Abs(last_op.built[i].end_rank - last_op.built[i].start_rank)
                = last_op.rank_threshold

\* The track_type member of a row's track_data as save_tracks_to_db wrote it.
StoredTrackType(row) ==
    IF row.track_data.json = "object" THEN row.track_data.members.track_type
    ELSE row.track_data.items[1].track_type

\* C5: remove_manual_tracks(pair, exchange, market_type) deletes every tracks
\* row of that pair, exchange and market whose stored track_data has track_type
\* 'manual', and leaves every other row as it was.
RemoveDeletesStoredManualRows ==
    [][last_op'.op = "remove_manual_tracks" =>
        tracks' = tracks \ {r \in tracks : /\ r.pair = last_op'.pair
                                           /\ r.exchange = last_op'.venue.exchange
                                           /\ r.market_type = last_op'.venue.market_type
                                           /\ StoredTrackType(r) = "manual"}]_vars

\* C9: an incremental build over the two most recent snapshots (prev the older,
\* new the newer by exchange time) persists for each qualifying pair exactly one
\* row, whose segment starts at prev's time and rank, ends at new's time and
\* rank, and has direction 'up' iff end_rank < start_rank, 'down' iff end_rank >
\* start_rank and 'flat' iff they are equal; for any other pair it persists none.
IncrementalBuildPersistsOneSegmentPerPair ==
    [][(last_op'.op = "build" /\ last_op'.processed) =>
        LET prev == last_op'.prev
            new == last_op'.new
            prev_df == GetSnapshotData(prev.table_name)
            new_df == GetSnapshotData(new.table_name)
            added == tracks' \ tracks
            qualifying == {pair \in DOMAIN prev_df \cap DOMAIN new_df :
                              \/ pair \in last_op'.manual_pairs
                              \/ Abs(new_df[pair].rank - prev_df[pair].rank)
                                    >= last_op'.rank_threshold}
        IN  /\ ~TimeBefore(new.exchange_time, prev.exchange_time)
            /\ \A m \in VenueMeta(last_op'.venue) :
                  \/ m.table_name = new.table_name
                  \/ ~TimeBefore(prev.exchange_time, ParseIso(m.exchange_timestamp))
            /\ \A r \in added : r.pair \in qualifying
            /\ \A pair \in qualifying :
                  /\ Cardinality({r \in added : r.pair = pair}) = 1
                  /\ \A r \in {x \in added : x.pair = pair} :
                        LET d == r.track_data.members
                        IN  /\ r.track_data.json = "object"
                            /\ r.exchange = last_op'.venue.exchange
                            /\ r.market_type = last_op'.venue.market_type
                            /\ ParseIso(d.start_time) = prev.exchange_time
                            /\ ParseIso(d.end_time) = new.exchange_time
                            /\ d.start_rank = prev_df[pair].rank
                            /\ d.end_rank = new_df[pair].rank
                            /\ d.direction = "up" <=> d.end_rank < d.start_rank
                            /\ d.direction = "down" <=> d.end_rank > d.start_rank
                            /\ d.direction = "flat" <=> d.end_rank = d.start_rank]_vars

\* C9 witness: a build has persisted an 'up', a 'down' and a 'flat' segment, from
\* a new snapshot that was saved before the previous one.
UpDownFlatPersisted ==
    /\ last_op.op = "build"
    /\ last_op.processed
    /\ TimeBefore(last_op.new.created_at, last_op.prev.created_at)
    /\ \A dir \in {"up", "down", "flat"} :
          \E r \in tracks :
             /\ r.id > tracks_seq - Len(last_op.built)
             /\ r.track_data.members.direction = dir

\* The fields of a segment the round trip is to keep.
KeptFields(seg) ==
    [direction |-> seg.direction, start_rank |-> seg.start_rank, end_rank |-> seg.end_rank,
     color |-> seg.color, track_type |-> seg.track_type,
     points |-> [i \in DOMAIN seg.points |->
                    [rank |-> seg.points[i].rank, price |-> seg.points[i].price,
                     change |-> seg.points[i].change, volume |-> seg.points[i].volume]]]

\* C10: every two-point segment a build saves is returned by a load within the
\* lookback window, under its pair, with the same direction, start_rank,
\* end_rank, color, track_type and per-point rank, price, change and volume;
\* and a load returns under each pair one segment for each row of that pair the
\* query selects, rows of the same pair neither merged nor dropped.
SaveLoadRoundTrip ==
    [][/\ (last_op'.op = "build" /\ last_op'.processed) =>
            \A h \in LookbackSamples :
               \A ret \in LoadedTracks(LoadedRows(tracks', last_op'.venue, "None", h)) :
                  \A i \in DOMAIN last_op'.built :
                     LET seg == last_op'.built[i]
                     IN  /\ seg.pair \in DOMAIN ret
                         /\ \E j \in DOMAIN ret[seg.pair] :
                               /\ ret[seg.pair][j].pair = seg.pair
                               /\ KeptFields(ret[seg.pair][j]) = KeptFields(seg)
       /\ last_op'.op = "load_tracks_from_db" =>
            LET selected == LoadedRows(tracks, last_op'.venue, last_op'.pair,
                                       last_op'.lookback_hours)
            IN  /\ DOMAIN last_op'.ret = {r.pair : r \in selected}
                /\ \A pair \in DOMAIN last_op'.ret :
                      /\ Len(last_op'.ret[pair])
                            = Cardinality({r \in selected : r.pair = pair})
                      /\ \A r \in {x \in selected : x.pair = pair} :
                            \E j \in DOMAIN last_op'.ret[pair] :
                               /\ last_op'.ret[pair][j].start_rank
                                     = r.track_data.members.start_rank
                               /\ last_op'.ret[pair][j].end_rank
                                     = r.track_data.members.end_rank
                               /\ last_op'.ret[pair][j].track_type
                                     = r.track_data.members.track_type]_vars

\* C10 witness: a load has returned, under one pair, the segments of two rows,
\* and a segment whose rank changed.
TwoRowsOfOnePairLoaded ==
    /\ last_op.op = "load_tracks_from_db"
    /\ \E pair \in DOMAIN last_op.ret :
          /\ Len(last_op.ret[pair]) >= 2
          /\ Cardinality({r \in tracks : r.pair = pair}) >= 2
          /\ \E j \in DOMAIN last_op.ret[pair] :
                last_op.ret[pair][j].start_rank # last_op.ret[pair][j].end_rank

\* ------------------------------------------------------------------------
\* Specification: the collector's analytics while the operator edits the
\* manual-highlight list on the Configuration page
\* ------------------------------------------------------------------------

NextManual ==
    \/ \E ranking \in Rankings : SaveSnapshot(CollectedVenue, ranking, 0)
    \/ \E pairs \in ManualPairSamples : SaveManualPairs(pairs)
    \/ \E pairs \in ManualPairSamples : PageRemoveManualPairs(pairs, CollectedVenue)
    \/ BuildIncremental(CollectedVenue)
    \/ \E d \in AnalyticsClockSteps : Tick(d, 0, MaxAnalyticsTicks)

SpecManual == InitAnalytics /\ [][NextManual]_vars

\* C27: after a pair was removed from the manual-highlight list on the
\* Configuration page no later analytics run persists a track of type manual
\* for it: pairwise processing sees the manual-pair list as last saved, and
\* every manual track it persists is of a pair on that list.
ProcessingSeesManualListAsSaved ==
    [][(last_op'.op = "build" /\ last_op'.processed) =>
          /\ last_op'.manual_pairs \in {{}, GetSetting("manual_pairs", {})}
          /\ \A i \in DOMAIN last_op'.built :
                last_op'.built[i].track_type = "manual"
                   => last_op'.built[i].pair \in GetSetting("manual_pairs", {})]_vars
\* ------------------------------------------------------------------------
\* Specification: rebuild mode over the snapshots an earlier collection left
\* ------------------------------------------------------------------------

\* Twenty snapshots a second apart and one a minute after the first: the
\* snapshot twenty places after the first is the only one a minute from it.
TwentyAhead == [k \in 1..(look_ahead + 1) |-> IF k <= look_ahead THEN k - 1 ELSE 60]

\* The exchange-time second offsets of the snapshots the database holds at the
\* start; two snapshots can carry one exchange time (the time of the ticker
\* ranked first, which the exchange had not updated).
OffsetLists ==
    {<<0, 30, 65, 95, 130>>,
     <<0, 65, 130>>,
     <<0, 100, 200>>,
     <<0, 10, 20, 200>>,
     <<0, 20, 100>>,
     <<0, 0, 60, 60>>,
     TwentyAhead,
     <<0>>}

\* The seconds between the exchange time of the k-th snapshot and its save:
\* snapshots of one exchange time were saved a second after one another.
SaveLag(offs, k) == Cardinality({j \in 1..(k - 1) : offs[j] = offs[k]})

\* The microsecond every snapshot of one collection was saved at.
OffsetMicros == {0, 500000}

\* The clock second of the snapshot at offset 0: a quarter of an hour back.
RebuildBase == ClockStart - 900

\* The target intervals rebuild mode is called with.
TargetSamples == {Seconds(60), Seconds(120), NoTarget}

\* The manual lists saved before a rebuild.
RebuildManualSamples == {{}, {"BTC/USDT"}}

\* The ranking of the k-th snapshot: the pairs turn over from one snapshot to
\* the next.
RankingOfSnapshot(k) ==
    IF k % 2 = 1 THEN <<"BTC/USDT", "ETH/USDT", "XRP/USDT">>
    ELSE <<"XRP/USDT", "ETH/USDT", "BTC/USDT">>

\* The snapshots_meta row save_snapshot writes at instant t for a ranking whose
\* first ticker the exchange stamped `lag` seconds earlier.
MetaRow(venue, t, lag, ranking) ==
    [table_name |-> TableName(venue, StampOf(t)), exchange |-> venue.exchange,
     market_type |-> venue.market_type,
     exchange_timestamp |-> IsoFormat(Instant(t.s - lag, t.us)),
     created_at |-> IsoFormat(t), row_count |-> Len(ranking)]

\* The database after save_snapshot ran for the venue at RebuildBase + offs[k],
\* microsecond us, for every k, on a new file.
InitRebuild ==
    /\ InitClock
    /\ InitCaches
    /\ InitCollector
    /\ InitPage
    /\ InitNet
    /\ last_op = NoOp
    /\ schema = BaseTables
    /\ pair_colors = SystemColors
    /\ pair_colors_seq = 2
    /\ user_settings = DefaultSettings
    /\ tracks = {}
    /\ tracks_seq = 0
    /\ \E offs \in OffsetLists : \E us \in OffsetMicros :
          LET at(k) == Instant(RebuildBase + offs[k] + SaveLag(offs, k), us)
          IN  /\ snapshots_meta = {MetaRow(CollectedVenue, at(k), SaveLag(offs, k),
                                            RankingOfSnapshot(k)) :
                                      k \in DOMAIN offs}
              /\ snapshot_tables = [name \in {TableName(CollectedVenue, StampOf(at(k))) :
                                                 k \in DOMAIN offs} |->
                                       DfOf(RankingOfSnapshot(
                                                CHOOSE k \in DOMAIN offs :
                                                    name = TableName(CollectedVenue,
                                                                     StampOf(at(k)))))]
              /\ used_pairs = {[pair |-> p, exchange |-> CollectedVenue.exchange,
                                market_type |-> CollectedVenue.market_type,
                                quote_currency |-> "NULL",
                                first_seen |-> IsoFormatNaive(at(1)),
                                last_seen |-> IsoFormatNaive(at(Len(offs)))] : p \in Pairs}

NextRebuild ==
    \/ \E target \in TargetSamples : Rebuild(CollectedVenue, target)
    \/ \E pairs \in RebuildManualSamples : SaveManualPairs(pairs)
    \/ \E t \in RankThresholdSamples : SaveSettingInt("rank_threshold", t)

SpecRebuild == InitRebuild /\ [][NextRebuild]_vars

\* The second offsets of the snapshots the rebuild step that ends in the next
\* state read, from the first of them.
WalkOffsets ==
    [k \in DOMAIN last_op'.snapshots |->
        last_op'.snapshots[k].exchange_time.s - last_op'.snapshots[1].exchange_time.s]

\* C6 as stated: in rebuild mode with snapshots at second offsets
\* [0, 30, 65, 95, 130] and a target of 60 seconds the first pair the walk
\* processes is (0, 65), and the walk continues from the snapshot at offset 65.
WalkFirstPairsZeroWithSixtyFive ==
    [][(/\ last_op'.op = "rebuild"
        /\ last_op'.target = 60
        /\ WalkOffsets = <<0, 30, 65, 95, 130>>) =>
            /\ Len(last_op'.walk) >= 2
            /\ last_op'.walk[1] = [prev |-> 1, new |-> 3]
            /\ last_op'.walk[2].prev = 3]_vars

\* C6 amended: in rebuild mode with snapshots at second offsets
\* [0, 30, 65, 95, 130] and a target of 60 seconds the first pair the walk
\* processes is (0, 30), the first snapshot ahead whose interval is within 30
\* seconds of the target (|30 - 60| = 30), and the walk continues from the
\* snapshot at offset 30: it processes (0, 30), (30, 65), (65, 95), (95, 130).
\* In every rebuild the walk starts at the first snapshot and continues from
\* the snapshot it paired last.
WalkPairsFirstSnapshotWithinTolerance ==
    [][last_op'.op = "rebuild" =>
        /\ Len(last_op'.snapshots) >= 2 => last_op'.walk[1].prev = 1
        /\ \A k \in DOMAIN last_op'.walk :
              /\ last_op'.walk[k].prev < last_op'.walk[k].new
              /\ k > 1 => last_op'.walk[k].prev = last_op'.walk[k - 1].new
        /\ (last_op'.target = 60 /\ WalkOffsets = <<0, 30, 65, 95, 130>>) =>
              last_op'.walk = <<[prev |-> 1, new |-> 2], [prev |-> 2, new |-> 3],
                                [prev |-> 3, new |-> 4], [prev |-> 4, new |-> 5]>>]_vars

\* C6 witness: a rebuild with target 60 has walked the snapshots at offsets
\* [0, 30, 65, 95, 130] and built tracks from them.
FiveSnapshotsWalked ==
    /\ last_op.op = "rebuild"
    /\ last_op.target = 60
    /\ Len(last_op.snapshots) = 5
    /\ \A k \in 1..5 :
          last_op.snapshots[k].exchange_time.s - last_op.snapshots[1].exchange_time.s
             = <<0, 30, 65, 95, 130>>[k]
    /\ Len(last_op.walk) = 4
    /\ last_op.built # <<>>

\* ------------------------------------------------------------------------
\* Specification: retention of snapshots and tracks
\* ------------------------------------------------------------------------

\* The clock steps: a second, and the retention period.
RetentionClockSteps == {1, 3600}

\* The microsecond the clock stands at after a step.
RetentionMicros == {0, 500000}

\* How often the clock advances in one behaviour of the retention specification.
MaxRetentionTicks == 2

\* The retention (hours) cleanup_old_data is called with.
RetentionSamples == {1}

\* The rankings collected while retention is watched.
RetentionRankings == {<<"BTC/USDT", "ETH/USDT">>, <<"ETH/USDT", "BTC/USDT">>}

NextRetention ==
    \/ \E ranking \in RetentionRankings : SaveSnapshot(CollectedVenue, ranking, 0)
    \/ SaveManualPairs({"ETH/USDT"})
    \/ BuildIncremental(CollectedVenue)
    \/ \E h \in RetentionSamples : CleanupOldData(h, FALSE)
    \/ \E d \in RetentionClockSteps : \E us \in RetentionMicros :
          Tick(d, us, MaxRetentionTicks)

SpecRetention == InitAnalytics /\ [][NextRetention]_vars

StorageClockSteps == {1, 3600}

\* How often the clock advances in one behaviour of the storage specification.
MaxStorageTicks == 2

NextStorage ==
    \/ \E venue \in Venues : \E ranking \in Rankings : SaveSnapshot(venue, ranking, 0)
    \/ \E h \in RetentionSamples : CleanupOldData(h, FALSE)
    \/ \E keep_colors \in BOOLEAN : \E keep_settings \in BOOLEAN :
          ClearAllData(keep_colors, keep_settings)
    \/ VerifyIntegrity
    \/ \E d \in StorageClockSteps : Tick(d, 0, MaxStorageTicks)

SpecStorage == InitAnalytics /\ [][NextStorage]_vars

\* C8: after any sequence of save_snapshot, cleanup_old_data, clear_all_data
\* and verify_db_integrity calls the live snapshot tables are the tables
\* snapshots_meta names: every snapshot table has exactly one meta row and every
\* meta row names a live table.
SnapshotTablesMatchMeta ==
    /\ \A name \in DOMAIN snapshot_tables :
          Cardinality({m \in snapshots_meta : m.table_name = name}) = 1
    /\ \A m \in snapshots_meta : m.table_name \in DOMAIN snapshot_tables


\* C14: a save_snapshot that stored a snapshot for an exchange and market type
\* leaves every pair of it in get_used_pairs of that exchange and market type,
\* takes no pair out of get_used_pairs of any exchange and market type (a pair
\* seen there stays listed when it is saved afterwards for another one), and
\* leaves the first_seen of every pair that had a used_pairs row as it was.
UsedPairsKeepEveryPairSeen ==
    [][(last_op'.op = "save_snapshot" /\ last_op'.ret # NoTable) =>
          /\ DOMAIN snapshot_tables'[last_op'.ret]
                 \subseteq GetUsedPairs(used_pairs', last_op'.venue, "None")
          /\ \A venue \in Venues :
                 GetUsedPairs(used_pairs, venue, "USDT")
                     \subseteq GetUsedPairs(used_pairs', venue, "USDT")
          /\ \A u \in used_pairs : \E x \in used_pairs' :
                 x.pair = u.pair /\ x.first_seen = u.first_seen]_vars

\* C21: a save_snapshot that returns the empty string leaves the database as
\* it was before the call: no new or replaced snapshot table, no new
\* snapshots_meta row and no changed used_pairs row, both when a step failed
\* after the writing started and when the input was empty.
FailedSaveLeavesDatabaseUntouched ==
    [][(last_op'.op = "save_snapshot" /\ last_op'.ret = NoTable) =>
          /\ snapshot_tables' = snapshot_tables
          /\ snapshots_meta' = snapshots_meta
          /\ used_pairs' = used_pairs]_vars

\* C25: after clear_all_data returns, for every combination of keep_colors and
\* keep_settings, every table later storage operations rely on exists
\* (pair_colors with its two system rows, used_pairs, user_settings,
\* snapshots_meta, tracks), so that a save_snapshot of non-empty data that
\* follows returns a table name and a cleanup_old_data that follows runs to
\* its commit.
ClearLeavesEveryTableInPlace ==
    [][/\ last_op'.op = "clear_all_data" =>
             /\ BaseTables \subseteq schema'
             /\ SystemColors \subseteq pair_colors'
       /\ (last_op.op = "clear_all_data" /\ last_op'.op = "save_snapshot") =>
             last_op'.ret # NoTable
       /\ (last_op.op = "clear_all_data" /\ last_op'.op = "cleanup_old_data") =>
             last_op'.ok]_vars

\* ------------------------------------------------------------------------
\* Specification: colour assignment while colour rows are deleted
\* ------------------------------------------------------------------------

NextColorCleanup ==
    \/ \E pair \in Pairs : GetOrCreatePairColor(pair)
    \/ \E h \in RetentionSamples : CleanupOldData(h, TRUE)
    \/ \E keep_settings \in BOOLEAN : ClearAllData(FALSE, keep_settings)
    \/ \E d \in ColorClockSteps : ColorTick(d)

SpecColorCleanup == InitColor /\ [][NextColorCleanup]_vars

\* The colours a call made now would answer from the cache, by pair.
CachedNow == {p \in DOMAIN pair_color_cache : CacheHit(ColorStore, p)}

\* C28: every (id, hex) get_or_create_pair_color returns is the pair's row of
\* pair_colors as stored when it returns, also after cleanup_old_data(
\* cleanup_colors=True) or clear_all_data(keep_colors=False) deleted colour
\* rows, and the colours calls answer with for two different pairs differ.
ReturnedColorIsStoredRow ==
    /\ (last_op.op = "get_or_create_pair_color" /\ last_op.ret # NoColor) =>
          \E r \in pair_colors :
             /\ r.pair = last_op.pair
             /\ r.id = last_op.ret.id
             /\ r.color = last_op.ret.color
    /\ \A p \in CachedNow : \A q \in CachedNow :
          p # q => pair_color_cache[p].color # pair_color_cache[q].color
\* ------------------------------------------------------------------------
\* The rebuild walk: its window, its fallback, its progress
\* ------------------------------------------------------------------------

\* C17: in rebuild mode the partner of snapshot i is chosen among the next 20
\* snapshots (indices i+1 .. i+20, bounded by the end of the list): it is the
\* first one in scan order whose gap to snapshot i differs from the target
\* interval by at most 30 seconds, or, if no snapshot in that window is within
\* tolerance, the one in the window with the smallest difference from the
\* target, the earliest such on ties.
PartnerChosenAmongNextTwenty ==
    [][last_op'.op = "rebuild" =>
        \A k \in DOMAIN last_op'.walk :
            LET snapshots == last_op'.snapshots
                i == last_op'.walk[k].prev
                partner == last_op'.walk[k].new
                window == (i + 1)..Min(i + 20, Len(snapshots))
                diff(j) == DiffFromTarget(snapshots[i], snapshots[j], last_op'.target)
                within == {j \in window : SpanAtMost(diff(j), 30)}
            IN  /\ partner \in window
                /\ IF within # {}
                   THEN partner \in within /\ \A j \in within : partner <= j
                   ELSE \A j \in window :
                           /\ ~SpanLess(diff(j), diff(partner))
                           /\ diff(j) = diff(partner) => partner <= j]_vars

\* The indices the while loop of the rebuild that ends in the next state stood
\* at: the first snapshot and every snapshot it paired.
WalkVisited ==
    {1} \cup {last_op'.walk[k].new : k \in DOMAIN last_op'.walk}

\* C18 as stated: in rebuild mode, when the look-ahead from index i finds no
\* candidate at all, the walk processes the adjacent pair (i, i+1) and resumes
\* at i+1.
NoCandidateProcessesAdjacentPair ==
    [][(last_op'.op = "rebuild" /\ Len(last_op'.snapshots) >= 2) =>
        \A i \in WalkVisited :
            BestMatchIndex(last_op'.snapshots, i, last_op'.target) = 0 =>
                \E k \in DOMAIN last_op'.walk :
                    /\ last_op'.walk[k] = [prev |-> i, new |-> i + 1]
                    /\ (k < Len(last_op'.walk) => last_op'.walk[k + 1].prev = i + 1)]_vars

\* C18 amended: in rebuild mode the look-ahead from index i finds no candidate
\* at all only when i is the last snapshot of the list, and there the walk ends
\* without processing a pair; the adjacent-pair step for a failed look-ahead is
\* never taken: every pair the walk processes is the one its look-ahead chose.
LookAheadFailsOnlyAtLastSnapshot ==
    [][last_op'.op = "rebuild" =>
        /\ \A i \in DOMAIN last_op'.snapshots :
              BestMatchIndex(last_op'.snapshots, i, last_op'.target) = 0
                 <=> i = Len(last_op'.snapshots)
        /\ \A k \in DOMAIN last_op'.walk :
              /\ last_op'.walk[k].prev # Len(last_op'.snapshots)
              /\ last_op'.walk[k].new =
                    BestMatchIndex(last_op'.snapshots, last_op'.walk[k].prev,
                                   last_op'.target)]_vars

\* C18 witness: a rebuild walked to the last of five snapshots, where its
\* look-ahead found no candidate, and its last pair was an adjacent one.
WalkEndedAtLastSnapshot ==
    /\ last_op.op = "rebuild"
    /\ Len(last_op.snapshots) = 5
    /\ Len(last_op.walk) >= 2
    /\ last_op.walk[Len(last_op.walk)] = [prev |-> 4, new |-> 5]
    /\ BestMatchIndex(last_op.snapshots, 5, last_op.target) = 0

\* C19: for every finite snapshot list, lists with equal exchange timestamps
\* among them, the rebuild walk terminates (the walk over every list the
\* query can return has an outcome, and it ends at the last snapshot after
\* fewer pairs than there are snapshots), its index strictly increases with every processed
\* pair, and the processed pairs form a forward chain in ascending
\* exchange-time order: each pair (a, b) has a before b in the list, b no
\* earlier than a, and the next processed pair starts at b.
WalkIsForwardChainToTheEnd ==
    /\ [](\A target \in TargetSamples :
             \A snapshots \in GetAllSnapshotsSorted(CollectedVenue) :
                 Len(snapshots) >= 2 =>
                    Walk(snapshots, 1, TargetInterval(target),
                         GetSetting("rank_threshold", 5), ColorStore,
                         manual_pairs_cache, {}) # {})
    /\ [][last_op'.op = "rebuild" =>
            LET snapshots == last_op'.snapshots
                walk == last_op'.walk
            IN  /\ Len(snapshots) < 2 => walk = <<>>
                /\ Len(snapshots) >= 2 =>
                      /\ Len(walk) \in 1..(Len(snapshots) - 1)
                      /\ walk[1].prev = 1
                      /\ walk[Len(walk)].new = Len(snapshots)
                /\ \A k \in DOMAIN walk :
                      /\ walk[k].prev \in DOMAIN snapshots
                      /\ walk[k].new \in DOMAIN snapshots
                      /\ walk[k].prev < walk[k].new
                      /\ ~TimeBefore(snapshots[walk[k].new].exchange_time,
                                     snapshots[walk[k].prev].exchange_time)
                      /\ k > 1 => walk[k].prev = walk[k - 1].new]_vars

\* C19 witness: a rebuild walked four snapshots of which the first two carry
\* one exchange time and the last two another.
EqualTimestampsWalked ==
    /\ last_op.op = "rebuild"
    /\ Len(last_op.snapshots) = 4
    /\ last_op.snapshots[1].exchange_time = last_op.snapshots[2].exchange_time
    /\ last_op.snapshots[3].exchange_time = last_op.snapshots[4].exchange_time
    /\ Len(last_op.walk) = 2
    /\ last_op.walk[2].new = 4

\* ------------------------------------------------------------------------
\* One collection tick (data_collector.py, _collect_data): the position of the
\* call is the operation it made last
\* ------------------------------------------------------------------------

\* _collect_data is between two of its calls: it has fetched a table it goes on
\* to save, or has saved, or has run the analytics.
InTick ==
    \/ last_op.op = "collect" /\ last_op.proceed
    \/ last_op.op = "save_snapshot"
    \/ last_op.op = "build"

\* time_diff < self.min_interval_seconds, against the latest snapshot
SavedTooRecently(latest_snapshots) ==
    /\ latest_snapshots # <<>>
    /\ LET time_diff == Duration(latest_snapshots[1].exchange_time, Now)
       IN  time_diff.s < min_interval_seconds

\* _collect_data, up to save_snapshot: the ranked table is fetched; the call
\* goes on unless the table is empty or the latest snapshot of the exchange and
\* market is less than min_interval_seconds old.
CollectBegin(ranking) ==
    /\ ~InTick
    /\ \E latest_snapshots \in GetLatestSnapshots(CollectedVenue, 1) :
          last_op' = [op |-> "collect", ranking |-> ranking,
                      proceed |-> ranking # <<>> /\ ~SavedTooRecently(latest_snapshots)]
    /\ UNCHANGED <<clockVars, pageVars, netVars, dbVars, cacheVars, collVars>>

\* table_name = self.storage.save_snapshot(exchange, market_type, df, period_minutes=5)
CollectSave ==
    /\ last_op.op = "collect"
    /\ last_op.proceed
    /\ SaveSnapshot(CollectedVenue, last_op.ranking, 0)

\* The same call for a table whose first ticker the exchange stamped `lag`
\* seconds before the save.
CollectSaveStamped(lag) ==
    /\ last_op.op = "collect"
    /\ last_op.proceed
    /\ SaveSnapshot(CollectedVenue, last_op.ranking, lag)

\* The analytics called whatever save_snapshot returned.
AnalyticsDueAlways == last_op.op = "save_snapshot"

\* `if table_name:` after save_snapshot
AnalyticsDue == last_op.op = "save_snapshot" /\ last_op.ret # NoTable

\* self.analytics.build_and_save_two_point_tracks(exchange, market_type, rebuild_all=False)
CollectAnalytics ==
    /\ AnalyticsDue
    /\ BuildIncremental(CollectedVenue)

\* `except Exception` around the analytics: an exception left
\* build_and_save_two_point_tracks, after its create_tracks_table()
CollectAnalyticsRaises ==
    /\ AnalyticsDue
    /\ schema' = schema \cup {"tracks"}
    /\ last_op' = [op |-> "build", venue |-> CollectedVenue, built |-> <<>>,
                   processed |-> FALSE, raised |-> TRUE]
    /\ UNCHANGED <<clockVars, pageVars, netVars, pair_colors, pair_colors_seq, used_pairs, snapshots_meta,
                   snapshot_tables, user_settings, tracks, tracks_seq, cacheVars, collVars>>

\* self.storage.cleanup_old_data(retention_hours=self.retention_hours, cleanup_colors=False)
CollectCleanup ==
    /\ \/ last_op.op = "build"
       \/ last_op.op = "save_snapshot" /\ ~AnalyticsDue
    /\ CleanupOldData(coll_config.retention_hours, FALSE)

\* The clock steps of the tick specification: the throttle interval
TickClockSteps == {30}

\* How often the clock advances in one behaviour of the tick specification.
MaxTickClockSteps == 2

\* Time passes, between two ticks or within one.
TickClock(d) ==
    /\ ticks < MaxTickClockSteps
    /\ now' = now + d
    /\ ticks' = ticks + 1
    /\ UNCHANGED <<now_us, exchange_feed, pageVars, netVars, dbVars, cacheVars, collVars,
                   last_op>>

NextTick ==
    \/ \E ranking \in Rankings : CollectBegin(ranking)
    \/ CollectSave
    \/ CollectAnalytics
    \/ CollectAnalyticsRaises
    \/ CollectCleanup
    \/ \E keep_colors \in BOOLEAN : ~InTick /\ ClearAllData(keep_colors, TRUE)
    \/ \E d \in TickClockSteps : TickClock(d)

SpecTick == InitAnalytics /\ [][NextTick]_vars

\* C16: within one collection tick the calls come in the order save_snapshot,
\* incremental analytics, retention cleanup: the analytics is called exactly
\* when save_snapshot returned a table name, directly after it; the cleanup is
\* called directly after the analytics or directly after a save_snapshot that
\* returned no table name; and after an analytics that raised the cleanup of
\* the tick is still to run.
TickRunsSaveAnalyticsCleanup ==
    /\ []((last_op.op = "build" /\ "raised" \in DOMAIN last_op) => ENABLED CollectCleanup)
    /\ [][last_op' # last_op =>
             /\ last_op'.op = "save_snapshot" => last_op.op = "collect"
             /\ last_op'.op = "build"
                   <=> (last_op.op = "save_snapshot" /\ last_op.ret # NoTable)
             /\ last_op'.op = "cleanup_old_data"
                   <=> \/ last_op.op = "build"
                       \/ last_op.op = "save_snapshot" /\ last_op.ret = NoTable]_vars

\* C16 witness: the cleanup of a tick has run directly after a save_snapshot
\* that returned no table name (used_pairs is missing and the table it wrote
\* has no snapshots_meta row), no analytics in between.
TickCleanedUpAfterFailedSave ==
    /\ last_op.op = "cleanup_old_data"
    /\ "used_pairs" \notin schema
    /\ \E name \in DOMAIN snapshot_tables :
          \A m \in snapshots_meta : m.table_name # name

\* ------------------------------------------------------------------------
\* Specification: successive ticks over tickers the exchange stamped at
\* different times, with a rank threshold that lets tracks be built
\* ------------------------------------------------------------------------

NextStampedTick ==
    \/ \E ranking \in Rankings \ {<<>>} : CollectBegin(ranking)
    \/ \E lag \in LagSamples : CollectSaveStamped(lag)
    \/ CollectAnalytics
    \/ CollectCleanup
    \/ \E t \in RankThresholdSamples : ~InTick /\ SaveSettingInt("rank_threshold", t)
    \/ \E d \in TickClockSteps : TickClock(d)

SpecStampedTick == InitAnalytics /\ [][NextStampedTick]_vars

\* The time save_snapshot wrote the snapshots_meta row of a table at.
SavedAt(table_name) ==
    (CHOOSE m \in snapshots_meta' : m.table_name = table_name).created_at

\* C26: each incremental analytics run the collector triggers after saving
\* snapshot S builds its tracks between S and the snapshot saved before it, S
\* the end point, also when the exchange timestamp of S is not later than that
\* of a stored snapshot; so no track of one pair between the same two
\* snapshots is persisted twice.
IncrementalRunEndsAtSavedSnapshot ==
    [][(/\ last_op.op = "save_snapshot"
        /\ last_op.ret # NoTable
        /\ last_op'.op = "build"
        /\ last_op'.processed) =>
            /\ last_op'.new.table_name = last_op.ret
            /\ \A m \in snapshots_meta' :
                  m.table_name \notin {last_op'.new.table_name, last_op'.prev.table_name}
                     => StrLess(m.created_at, SavedAt(last_op'.prev.table_name))
            /\ \A r1, r2 \in tracks' :
                  (r1.pair = r2.pair /\ r1.track_data = r2.track_data) => r1.id = r2.id]_vars
\* ------------------------------------------------------------------------
\* Specification: the integrity pass on a database file earlier runs left
\* ------------------------------------------------------------------------

\* The colour get_or_create_pair_color stored for BTC/USDT in an earlier run.
StoredCyan == <<"#", "0", "0", "f", "f", "f", "f">>

\* pair_colors of the file: the system rows and the row of BTC/USDT, id 3.
StoredColors ==
    SystemColors \cup {[id |-> 3, pair |-> "BTC/USDT", color |-> StoredCyan, is_system |-> 0]}

\* What the colour columns of a row of the file can hold: NULL, the empty
\* text, the id of a colour row (as update_snapshot_color writes it), a number
\* that is no id, a hex colour.
ColourValueSamples ==
    {NoneText, Some(<<>>), Some(<<"3">>), Some(<<"9">>), Some(StoredCyan)}

\* The ids update_snapshot_color is called with.
ColorIdSamples == {2, 3}

\* The two snapshots of the file: saved a minute apart, a quarter of an hour
\* before the clock starts.
StoredTable(k) == TableName(CollectedVenue, RebuildBase + 60 * k)

\* The rows of a stored snapshot, the colour columns of BTC/USDT as given.
StoredRows(ranking, colour, manual_colour) ==
    [p \in DOMAIN DfOf(ranking) |->
        IF p = "BTC/USDT"
        THEN [DfOf(ranking)[p] EXCEPT !.colour = colour, !.manual_colour = manual_colour]
        ELSE DfOf(ranking)[p]]

\* DataStorage.__init__ on an existing file: the tables exist; the file holds
\* the meta rows of two snapshots, the table of the second of which may be
\* missing, and colour columns earlier versions filled.
InitIntegrity ==
    /\ InitClock
    /\ InitCaches
    /\ InitCollector
    /\ InitPage
    /\ InitNet
    /\ last_op = NoOp
    /\ schema = BaseTables
    /\ pair_colors = StoredColors
    /\ pair_colors_seq = 3
    /\ user_settings = DefaultSettings
    /\ tracks = {}
    /\ tracks_seq = 0
    /\ used_pairs = {}
    /\ snapshots_meta =
          {MetaRow(CollectedVenue, Instant(RebuildBase + 60 * k, 0), 0, RankingOfSnapshot(k)) :
              k \in 1..2}
    /\ \E second_missing \in BOOLEAN :
       \E colour \in ColourValueSamples : \E manual_colour \in ColourValueSamples :
          snapshot_tables =
             [t \in {StoredTable(1)} \cup (IF second_missing THEN {} ELSE {StoredTable(2)}) |->
                 StoredRows(RankingOfSnapshot(IF t = StoredTable(1) THEN 1 ELSE 2),
                            colour, manual_colour)]

NextIntegrity ==
    \/ VerifyIntegrity
    \/ \E k \in 1..2 : \E color_id \in ColorIdSamples :
          UpdateSnapshotColor(StoredTable(k), "ETH/USDT", color_id)
    \/ SaveSnapshot(CollectedVenue, RankingOfSnapshot(1), 0)
    \/ \E h \in RetentionSamples : CleanupOldData(h, FALSE)

SpecIntegrity == InitIntegrity /\ [][NextIntegrity]_vars

\* A colour column value that is a bare number or numeric text equal to the id
\* of a pair_colors row of the next state.
NamesColorId(value) ==
    /\ value.given
    /\ IsDigitText(value.v)
    /\ \E c \in pair_colors' : c.id = IntOfText(value.v)

\* C22: after verify_db_integrity returns, no snapshots_meta row names a table
\* that does not exist, and no live snapshot table holds a colour or
\* manual_colour value that is a bare number or numeric string equal to an
\* existing pair_colors id, also when the pass had both orphaned meta rows to
\* delete and numeric colours to rewrite.
IntegrityPassLeavesNoOrphanAndNoColorId ==
    [][last_op'.op = "verify_db_integrity" =>
          /\ \A m \in snapshots_meta' : m.table_name \in DOMAIN snapshot_tables'
          /\ \A m \in snapshots_meta' : \A p \in DOMAIN snapshot_tables'[m.table_name] :
                /\ ~NamesColorId(snapshot_tables'[m.table_name][p].colour)
                /\ ~NamesColorId(snapshot_tables'[m.table_name][p].manual_colour)]_vars


\* ------------------------------------------------------------------------
\* Specification: settings saved and read back
\* ------------------------------------------------------------------------

\* get_all_settings()
GetAllSettings ==
    IF "user_settings" \in schema
    THEN [k \in DOMAIN user_settings |-> JsonLoadsOrText(user_settings[k])]
    ELSE <<>>

BtcUsdtText == <<"B", "T", "C", "/", "U", "S", "D", "T">>

EthUsdtText == <<"E", "T", "H", "/", "U", "S", "D", "T">>

\* Values the pages save: a quote currency of None ("All pairs"), the filter
\* checkboxes, the numeric inputs, the lists of markets and of manual pairs.
SettingValueSamples ==
    {PyNone, PyBool(TRUE), PyBool(FALSE),
     PyInt(0), PyInt(60), PyInt(800), PyInt(0 - 5),
     PyList(<<>>), PyList(<<BtcUsdtText>>), PyList(<<BtcUsdtText, EthUsdtText>>)}

SettingKeySamples == {"quote_currency", "tracks_show_manual", "tracks_filter_minutes"}

NextSettings ==
    \E key \in SettingKeySamples : \E value \in SettingValueSamples :
        SaveSetting(key, value)

SpecSettings == InitColor /\ [][NextSettings]_vars

\* C30: a value the dashboard persists (an integer, a list of strings, True,
\* False or None) reads back from get_setting(key) and from
\* get_all_settings()[key] as a value equal to the one saved, and a checkbox
\* saved as False reads back as a false value.
SavedSettingReadsBackEqual ==
    last_op.op = "save_setting" =>
        /\ PyEq(GetSetting(last_op.key, PyNone), last_op.value)
        /\ PyEq(GetAllSettings[last_op.key], last_op.value)
        /\ last_op.value = PyBool(FALSE) => ~Truthy(GetSetting(last_op.key, PyNone))

\* Integers and lists of strings read back as saved.
IntegersAndListsReadBackEqual ==
    (last_op.op = "save_setting" /\ last_op.value.type \in {"int", "list"}) =>
        /\ PyEq(GetSetting(last_op.key, PyNone), last_op.value)
        /\ PyEq(GetAllSettings[last_op.key], last_op.value)
\* ------------------------------------------------------------------------
\* The exchange fetcher (async_fetcher.py)
\* ------------------------------------------------------------------------

\* f"{n:03d}"
Dec3(n) == <<DecDigits[((n \div 100) % 10) + 1]>> \o Dec2(n % 100)

\* The 'datetime' an exchange library reports for the millisecond ms since
\* 2026-11-01T00:00:00Z: 2026-11-DDTHH:MM:SS.mmmZ
Iso8601Z(ms) ==
    LET full == IsoFormat(Instant(ms \div 1000, 0))
    IN  SubSeq(full, 1, 19) \o <<".">> \o Dec3(ms % 1000) \o <<"Z">>

RECURSIVE ReplaceZ(_)
\* ticker['datetime'].replace('Z', '+00:00')
ReplaceZ(str) ==
    IF str = <<>> THEN <<>>
    ELSE (IF Head(str) = "Z" THEN <<"+", "0", "0", ":", "0", "0">> ELSE <<Head(str)>>)
            \o ReplaceZ(Tail(str))

\* datetime.fromisoformat(text): the instant of a text of the form
\* YYYY-MM-DDTHH:MM:SS[.fff[fff]]+00:00, ValueError (ok FALSE) for another text
FromIsoFormat(str) ==
    LET n == Len(str)
        frac == IF n = 25 THEN 0 ELSE IF n = 29 THEN 3 ELSE IF n = 32 THEN 6 ELSE 0 - 1
        shaped == /\ frac >= 0
                  /\ \A i \in {1, 2, 3, 4, 6, 7, 9, 10, 12, 13, 15, 16, 18, 19} : IsDigit(str[i])
                  /\ str[5] = "-" /\ str[8] = "-" /\ str[11] = "T"
                  /\ str[14] = ":" /\ str[17] = ":"
                  /\ frac > 0 => (str[20] = "." /\ \A i \in 21..(20 + frac) : IsDigit(str[i]))
                  /\ SubSeq(str, n - 5, n) = <<"+", "0", "0", ":", "0", "0">>
        sec == (Num2(str, 9) - 1) * 86400 + Num2(str, 12) * 3600
                 + Num2(str, 15) * 60 + Num2(str, 18)
        micro == IF frac = 0 THEN 0
                 ELSE IF frac = 3
                 THEN (DigitVal(str[21]) * 100 + Num2(str, 22)) * 1000
                 ELSE Num2(str, 21) * 10000 + Num2(str, 23) * 100 + Num2(str, 25)
    IN  IF shaped THEN [ok |-> TRUE, t |-> Instant(sec, micro)]
        ELSE [ok |-> FALSE, t |-> Instant(0, 0)]

\* datetime.fromtimestamp(ms / 1000, tz=timezone.utc)
FromTimestampMs(ms) == Instant(ms \div 1000, (ms % 1000) * 1000)

\* ticker_datetime of a ticker: from its millisecond timestamp when that is
\* present and not 0, else from its datetime text when that is present, not
\* empty and parses; None otherwise.
TickerDatetime(ticker) ==
    IF ticker.timestamp.given /\ ticker.timestamp.v # 0
    THEN Some(FromTimestampMs(ticker.timestamp.v))
    ELSE IF ticker.datetime.given /\ ticker.datetime.v # <<>>
    THEN LET parsed == FromIsoFormat(ReplaceZ(ticker.datetime.v))
         IN  IF parsed.ok THEN Some(parsed.t) ELSE NoneTime
    ELSE NoneTime

\* The freshness test with the boundary on the wrong side: a ticker exactly 24
\* hours old counts as too old.
OlderThanADayInclusive(ticker_datetime, current_exchange_time) ==
    Duration(ticker_datetime, current_exchange_time).s >= 24 * 3600

\* time_difference.total_seconds() > 24 * 3600
OlderThanADay(ticker_datetime, current_exchange_time) ==
    LET time_difference == Duration(ticker_datetime, current_exchange_time)
    IN  time_difference.s > 24 * 3600
            \/ (time_difference.s = 24 * 3600 /\ time_difference.us > 0)

\* current_exchange_time: the exchange's fetch_time() when it answers, else the
\* system clock
CurrentExchangeTime(exchange_time_ms) ==
    IF exchange_time_ms.given THEN FromTimestampMs(exchange_time_ms.v) ELSE Now

\* "All pairs"
AllPairs == <<"A", "l", "l", " ", "p", "a", "i", "r", "s">>

\* The filters of the loop before the time of the ticker is read: market type,
\* quote currency, last and percentage present, price above 0, volume not
\* negative.
PassesFilters(ticker, market_type, quote_currency) ==
    /\ ticker.type = market_type
    /\ (quote_currency.given /\ quote_currency.v # <<>> /\ quote_currency.v # AllPairs)
           => (ticker.quote # <<>> /\ Upper(ticker.quote) = Upper(quote_currency.v))
    /\ ticker.last.given
    /\ ticker.percentage.given
    /\ ticker.last.v > 0
    /\ ~(ticker.quoteVolume.given /\ ticker.quoteVolume.v # 0 /\ ticker.quoteVolume.v <= 0)

\* The ticker reaches data.append: it passes the filters, its time was
\* determined and is not more than 24 hours before the exchange's time.
Survives(ticker, market_type, quote_currency, current_exchange_time) ==
    /\ PassesFilters(ticker, market_type, quote_currency)
    /\ TickerDatetime(ticker).given
    /\ ~OlderThanADay(TickerDatetime(ticker).v, current_exchange_time)

\* The row data.append adds for a ticker; change_24h in ten-thousandths of a
\* per cent.
DataRow(ticker) ==
    [pair |-> ticker.symbol,
     price |-> ticker.last.v,
     change_24h |-> ticker.percentage.v,
     volume_24h |-> IF ticker.quoteVolume.given THEN ticker.quoteVolume.v ELSE 0,
     timestamp |-> IsoFormat(TickerDatetime(ticker).v),
     system_timestamp |-> IsoFormat(Now)]

\* Series.round(3) of a value in ten-thousandths: to the nearest thousandth, a
\* half to the even one
Round3(c) ==
    LET q == c \div 10
        r == c % 10
    IN  IF r < 5 THEN q * 10
        ELSE IF r > 5 THEN (q + 1) * 10
        ELSE IF q % 2 = 0 THEN q * 10 ELSE (q + 1) * 10

\* The sort with ascending=True
SortedByChangeAscending(rows) ==
    {o \in Orderings(rows) :
        \A i, j \in DOMAIN o : i < j => o[i].change_24h <= o[j].change_24h}

\* df.sort_values('change_24h', ascending=False): the orders it can leave the
\* rows in (rows of equal change in any order)
SortedByChange(rows) ==
    {o \in Orderings(rows) :
        \A i, j \in DOMAIN o : i < j => o[i].change_24h >= o[j].change_24h}

\* rank added in sorted order, the first `limit` rows kept when limit is given
\* and not 0, change_24h rounded
RankedFrame(sorted, limit) ==
    LET kept == IF limit # 0 /\ Len(sorted) > limit THEN limit ELSE Len(sorted)
    IN  [i \in 1..kept |->
            [rank |-> i,
             pair |-> sorted[i].pair,
             price |-> sorted[i].price,
             change_24h |-> Round3(sorted[i].change_24h),
             volume_24h |-> sorted[i].volume_24h,
             timestamp |-> sorted[i].timestamp,
             system_timestamp |-> sorted[i].system_timestamp]]

\* fetch_ranked_pairs(limit, quote_currency) on the tickers the exchange
\* returns (a function from symbols to tickers): the frames it can return
FetchRankedPairsFrames(all_tickers, exchange_time_ms, market_type, limit, quote_currency) ==
    LET current_exchange_time == CurrentExchangeTime(exchange_time_ms)
        data == {DataRow(all_tickers[sym]) :
                    sym \in {x \in DOMAIN all_tickers :
                                Survives(all_tickers[x], market_type, quote_currency,
                                         current_exchange_time)}}
    IN  {RankedFrame(o, limit) : o \in SortedByChange(data)}

\* fetch_ranked_pairs(limit, quote_currency) of a fetcher of market_type, the
\* exchange answering fetch_tickers() and fetch_time() with exchange_feed
FetchRankedPairs(market_type, limit, quote_currency) ==
    /\ \E ret \in FetchRankedPairsFrames(exchange_feed.all_tickers,
                                         exchange_feed.exchange_time_ms, market_type,
                                         limit, quote_currency) :
          last_op' = [op |-> "fetch_ranked_pairs", market_type |-> market_type,
                      limit |-> limit, quote_currency |-> quote_currency, ret |-> ret]
    /\ UNCHANGED <<clockVars, pageVars, netVars, dbVars, cacheVars, collVars>>

\* ------------------------------------------------------------------------
\* Specification: fetch_ranked_pairs on the tickers of an exchange
\* ------------------------------------------------------------------------

Hour == 3600 * 1000

USDT == <<"U", "S", "D", "T">>

\* A spot USDT ticker of price 100 and volume 1000 with the change `change`,
\* stamped age_ms before the millisecond at_ms.
TickerAged(symbol, change, at_ms, age_ms) ==
    [symbol |-> symbol, type |-> "spot", quote |-> USDT,
     last |-> Some(100), percentage |-> Some(change), quoteVolume |-> Some(1000),
     timestamp |-> Some(at_ms - age_ms), datetime |-> Some(Iso8601Z(at_ms - age_ms))]

\* How far before the exchange's time the tickers are stamped: an hour, 23
\* hours, 24 hours, a millisecond more, 25 hours.
AgeSamples == {Hour, 23 * Hour, 24 * Hour, 24 * Hour + 1, 25 * Hour}

\* What a ticker carries of its time: both fields, the text only (the
\* timestamp None or 0), a text that does not parse, or neither.
TimeShapes == {"both", "text", "zero_and_text", "bad_text", "empty_text", "neither"}

BadText == <<"b", "a", "d">>

WithTimeShape(ticker, shape) ==
    CASE shape = "both" -> ticker
      [] shape = "text" -> [ticker EXCEPT !.timestamp = None]
      [] shape = "zero_and_text" -> [ticker EXCEPT !.timestamp = Some(0)]
      [] shape = "bad_text" -> [ticker EXCEPT !.timestamp = None, !.datetime = Some(BadText)]
      [] shape = "empty_text" -> [ticker EXCEPT !.timestamp = Some(0), !.datetime = Some(<<>>)]
      [] shape = "neither" -> [ticker EXCEPT !.timestamp = None, !.datetime = NoneText]

\* What else a ticker can be: valid, or failing one of the filters.
Defects == {"valid", "no_last", "no_percentage", "zero_price", "negative_volume",
            "zero_volume", "no_volume", "swap", "btc_quote", "lower_quote"}

WithDefect(ticker, defect) ==
    CASE defect = "valid" -> ticker
      [] defect = "no_last" -> [ticker EXCEPT !.last = None]
      [] defect = "no_percentage" -> [ticker EXCEPT !.percentage = None]
      [] defect = "zero_price" -> [ticker EXCEPT !.last = Some(0)]
      [] defect = "negative_volume" -> [ticker EXCEPT !.quoteVolume = Some(0 - 5)]
      [] defect = "zero_volume" -> [ticker EXCEPT !.quoteVolume = Some(0)]
      [] defect = "no_volume" -> [ticker EXCEPT !.quoteVolume = None]
      [] defect = "swap" -> [ticker EXCEPT !.type = "swap"]
      [] defect = "btc_quote" -> [ticker EXCEPT !.quote = <<"B", "T", "C">>]
      [] defect = "lower_quote" -> [ticker EXCEPT !.quote = <<"u", "s", "d", "t">>]

\* The 24h changes of the tickers A, B and C, in ten-thousandths of a per cent
\* (5.0, -2.0, 10.0), and the changes a ticker may have instead: equal to
\* A's, or a little above it.
Symbols == <<"A", "B", "C">>

BaseChange == <<50000, 0 - 20000, 100000>>

ChangeSamples(k) == {BaseChange[k], 50000, 50004, 50006}

LimitSamples == {0, 1, 2, 50}

QuoteSamples == {NoneText, Some(USDT), Some(AllPairs)}

\* The tickers of A, B and C: one of them departs from the plain one in its
\* time, or B departs in its validity and C in its change.
TickerSetSamples(at_ms) ==
    {[k \in 1..3 |->
         WithTimeShape(TickerAged(Symbols[k], BaseChange[k], at_ms,
                                  IF k = a[1] THEN a[2] ELSE Hour),
                       IF k = a[1] THEN a[3] ELSE "both")] :
        a \in (1..3) \X AgeSamples \X TimeShapes}
    \cup
    {[k \in 1..3 |->
         WithDefect(TickerAged(Symbols[k], IF k = 3 THEN c ELSE BaseChange[k], at_ms, Hour),
                    IF k = 2 THEN d ELSE "valid")] :
        d \in Defects, c \in ChangeSamples(3)}

\* The dict fetch_tickers() returns, keyed by symbol
TickersDict(list) == [sym \in {list[k].symbol : k \in DOMAIN list} |->
                         LET k == CHOOSE i \in DOMAIN list : list[i].symbol = sym
                         IN  list[k]]

\* The system clock of the fetch specification, in milliseconds
FetchClockMs == ClockStart * 1000

\* The exchange's time when fetch_time() answers: a minute behind the system
\* clock
FetchExchangeMs == FetchClockMs - 60000

\* The feeds of the fetch specification: fetch_time() answering or failing
\* (the tickers then aged against the system clock)
FeedSamples ==
    {[all_tickers |-> TickersDict(list), exchange_time_ms |-> Some(FetchExchangeMs)] :
        list \in TickerSetSamples(FetchExchangeMs)}
    \cup {[all_tickers |-> TickersDict(list), exchange_time_ms |-> None] :
              list \in TickerSetSamples(FetchClockMs)}

InitFetch ==
    /\ now = ClockStart /\ now_us = 0 /\ ticks = 0
    /\ exchange_feed \in FeedSamples
    /\ InitDb
    /\ InitCaches
    /\ InitCollector
    /\ InitPage
    /\ InitNet
    /\ last_op = NoOp

NextFetch ==
    \E limit \in LimitSamples, quote \in QuoteSamples :
        FetchRankedPairs("spot", limit, quote)

SpecFetch == InitFetch /\ [][NextFetch]_vars

\* The pairs of the frame the last fetch returned
FetchedPairs == {last_op.ret[i].pair : i \in DOMAIN last_op.ret}

\* The exchange's current time of the fetch, in milliseconds: its fetch_time(),
\* or the system clock
CurrentMs ==
    IF exchange_feed.exchange_time_ms.given THEN exchange_feed.exchange_time_ms.v
    ELSE now * 1000 + now_us \div 1000

HasMillis(ticker) == ticker.timestamp.given /\ ticker.timestamp.v # 0

\* The ticker has no millisecond timestamp and its datetime is a text of the
\* form YYYY-MM-DDTHH:MM:SS.mmmZ
HasDatetimeText(ticker) ==
    /\ ~HasMillis(ticker)
    /\ ticker.datetime.given
    /\ Len(ticker.datetime.v) = 24
    /\ ticker.datetime.v[24] = "Z"

\* The ticker's time is more than 24 hours before the exchange's current time
\* (texts of one form are ordered as their instants are).
MoreThanADayOld(ticker) ==
    \/ HasMillis(ticker) /\ CurrentMs - ticker.timestamp.v > 24 * Hour
    \/ HasDatetimeText(ticker) /\ StrLess(ticker.datetime.v, Iso8601Z(CurrentMs - 24 * Hour))

TimeUndetermined(ticker) == ~HasMillis(ticker) /\ ~HasDatetimeText(ticker)

\* C12: fetch_ranked_pairs excludes every ticker whose time is more than 24
\* hours before the exchange's current time and every ticker for which neither
\* a millisecond timestamp nor a parseable datetime was determined; a ticker
\* not older than that (23 hours, exactly 24 hours) that passes the other
\* filters is included when no limit cuts the result.
FetchExcludesStaleAndUntimedTickers ==
    last_op.op = "fetch_ranked_pairs" =>
        \A sym \in DOMAIN exchange_feed.all_tickers :
            LET ticker == exchange_feed.all_tickers[sym]
            IN  /\ (MoreThanADayOld(ticker) \/ TimeUndetermined(ticker))
                       => sym \notin FetchedPairs
                /\ (/\ ~MoreThanADayOld(ticker)
                    /\ ~TimeUndetermined(ticker)
                    /\ PassesFilters(ticker, last_op.market_type, last_op.quote_currency)
                    /\ last_op.limit = 0)
                       => sym \in FetchedPairs

\* C12 witness: a fetch left out the one ticker stamped a millisecond more than
\* 24 hours before the exchange's time, given by its datetime text only, and
\* returned the other two.
StaleByAMillisecondLeftOut ==
    /\ last_op.op = "fetch_ranked_pairs"
    /\ Cardinality(FetchedPairs) = 2
    /\ \E sym \in DOMAIN exchange_feed.all_tickers :
          /\ sym \notin FetchedPairs
          /\ ~exchange_feed.all_tickers[sym].timestamp.given
          /\ exchange_feed.all_tickers[sym].datetime.v = Iso8601Z(CurrentMs - 24 * Hour - 1)

\* The symbols of the feed whose tickers pass every filter of the last fetch
SurvivingSymbols ==
    {sym \in DOMAIN exchange_feed.all_tickers :
        /\ PassesFilters(exchange_feed.all_tickers[sym], last_op.market_type,
                         last_op.quote_currency)
        /\ ~MoreThanADayOld(exchange_feed.all_tickers[sym])
        /\ ~TimeUndetermined(exchange_feed.all_tickers[sym])}

\* The 24h change the exchange reported for the symbol
ReportedChange(sym) == exchange_feed.all_tickers[sym].percentage.v

\* C13: the frame fetch_ranked_pairs returns carries the ranks 1, 2, ..., len
\* in row order, its rows in descending order of change_24h (changes 5.0, -2.0
\* and 10.0 of A, B and C give C, A, B); with a positive limit below the number
\* of surviving tickers it has exactly `limit` rows, none of a lower change
\* than a surviving ticker left out; without such a limit it has every
\* surviving ticker.
FetchRanksByChangeDescending ==
    last_op.op = "fetch_ranked_pairs" =>
        LET ret == last_op.ret
            limit == last_op.limit
        IN  /\ \A i \in DOMAIN ret : ret[i].rank = i
            /\ \A i, j \in DOMAIN ret :
                  i < j => /\ ret[i].change_24h >= ret[j].change_24h
                           /\ ReportedChange(ret[i].pair) >= ReportedChange(ret[j].pair)
                           /\ ret[i].pair # ret[j].pair
            /\ FetchedPairs \subseteq SurvivingSymbols
            /\ IF limit > 0 /\ limit < Cardinality(SurvivingSymbols)
               THEN /\ Len(ret) = limit
                    /\ \A f \in FetchedPairs : \A g \in SurvivingSymbols \ FetchedPairs :
                          ReportedChange(f) >= ReportedChange(g)
               ELSE FetchedPairs = SurvivingSymbols
            /\ (/\ SurvivingSymbols = {"A", "B", "C"}
                /\ \A k \in 1..3 : ReportedChange(Symbols[k]) = BaseChange[k]
                /\ limit = 0)
                   => [i \in DOMAIN ret |-> ret[i].pair] = <<"C", "A", "B">>

\* C13 witness: a fetch limited to two rows returned C with rank 1 and A with
\* rank 2 of three surviving tickers, leaving B out.
TopTwoOfThreeRanked ==
    /\ last_op.op = "fetch_ranked_pairs"
    /\ last_op.limit = 2
    /\ SurvivingSymbols = {"A", "B", "C"}
    /\ Len(last_op.ret) = 2
    /\ last_op.ret[1].pair = "C" /\ last_op.ret[1].rank = 1
    /\ last_op.ret[2].pair = "A" /\ last_op.ret[2].rank = 2


\* C23: fetch_ranked_pairs skips every ticker whose last price or percentage
\* change is absent, whose last price is <= 0, or whose trading volume is
\* present (non-null) and <= 0; a ticker reporting a volume of exactly 0 is not
\* in the result.
FetchSkipsTickersWithoutPriceChangeOrVolume ==
    last_op.op = "fetch_ranked_pairs" =>
        \A sym \in DOMAIN exchange_feed.all_tickers :
            LET ticker == exchange_feed.all_tickers[sym]
            IN  (\/ ~ticker.last.given
                 \/ ~ticker.percentage.given
                 \/ ticker.last.given /\ ticker.last.v <= 0
                 \/ ticker.quoteVolume.given /\ ticker.quoteVolume.v <= 0)
                    => sym \notin FetchedPairs

\* ------------------------------------------------------------------------
\* Scoped acquisition of the fetcher (async_fetcher.py, data_collector.py)
\* ------------------------------------------------------------------------

\* How many fetchers are created in one behaviour.
MaxFetchers == 4

\* AsyncExchangeFetcher(exchange_id, market_type): exchange = None, session =
\* None; scope: where its `async with` stands.
NewFetcher == [session |-> "none", exchange |-> "none", scope |-> "new"]

\* What initialize() can meet: the exchange class found and the markets loaded,
\* getattr(ccxt, exchange_id) raising, or load_markets() raising.
InitializeOutcomes == {"ready", "no_exchange_class", "load_markets_failed"}

\* initialize(): the session is created, then the exchange class looked up,
\* then the client created on the session, then the markets loaded; an
\* exception is logged and raised again with what was created left as it is.
Initialize(f, outcome) ==
    IF f.exchange # "none"
    THEN [fetcher |-> f, raised |-> FALSE]
    ELSE CASE outcome = "no_exchange_class" ->
                [fetcher |-> [f EXCEPT !.session = "open"], raised |-> TRUE]
           [] outcome = "load_markets_failed" ->
                [fetcher |-> [f EXCEPT !.session = "open", !.exchange = "open"],
                 raised |-> TRUE]
           [] outcome = "ready" ->
                [fetcher |-> [f EXCEPT !.session = "open", !.exchange = "open"],
                 raised |-> FALSE]

\* close(): the exchange client, if there is one, then the session, if there is
\* one; errors of either are swallowed.
Close(f) ==
    [f EXCEPT !.exchange = IF @ = "none" THEN @ ELSE "closed",
              !.session = IF @ = "none" THEN @ ELSE "closed"]

\* A fetcher is inside the body of its `async with`.
FetcherInScope == \E i \in DOMAIN fetchers : fetchers[i].scope = "entered"

\* _collect_data(), up to the body of `async with AsyncExchangeFetcher(...) as
\* fetcher`: __aenter__ awaits initialize(); when that raises, the body and
\* __aexit__ are skipped and the exception is logged by _collect_data, which
\* returns: the cycle has ended.
CollectDataEnter(outcome) ==
    /\ ~FetcherInScope
    /\ Len(fetchers) < MaxFetchers
    /\ LET entry == Initialize(NewFetcher, outcome)
       IN  /\ fetchers' = Append(fetchers,
                                 [entry.fetcher EXCEPT
                                     !.scope = IF entry.raised THEN "failed" ELSE "entered"])
           /\ last_op' = [op |-> "collect_data_enter", outcome |-> outcome,
                          cycle_ended |-> entry.raised]
    /\ UNCHANGED <<clockVars, pageVars, dbVars, cacheVars, collVars>>

\* How the body of the `async with` is left: at its end, by its return (the
\* snapshot skipped), or by an exception of the storage or the analytics.
BodyEnds == {"completed", "returned", "raised"}

\* _collect_data(), from the body of the `async with` to its return: __aexit__
\* awaits close().
CollectDataLeave(how) ==
    /\ \E i \in DOMAIN fetchers :
          /\ fetchers[i].scope = "entered"
          /\ fetchers' = [fetchers EXCEPT ![i] = [Close(@) EXCEPT !.scope = "exited"]]
    /\ last_op' = [op |-> "collect_data_leave", outcome |-> how, cycle_ended |-> TRUE]
    /\ UNCHANGED <<clockVars, pageVars, dbVars, cacheVars, collVars>>

NextAcquire ==
    \/ \E outcome \in InitializeOutcomes : CollectDataEnter(outcome)
    \/ \E how \in BodyEnds : CollectDataLeave(how)

SpecAcquire == InitColor /\ [][NextAcquire]_vars

\* C29: when a collection cycle has ended, the HTTP session and the exchange
\* client of the fetcher it acquired are closed, also when initialize() raised
\* on entry (the exchange class not found, or the markets not loaded): no ended
\* cycle leaves a session or a client open.
EndedCycleLeavesNothingOpen ==
    \A i \in DOMAIN fetchers :
        fetchers[i].scope # "entered" =>
            /\ fetchers[i].session # "open"
            /\ fetchers[i].exchange # "open"
====
